---- MODULE Spec2Model ----
(***************************************************************************)
(* State-machine model of the X11 compositor of DrizzleDE                  *)
(* (src/src/x11_compositor.cpp): the surface registry, the per-tick event  *)
(* drain and the capture pass, together with the part of the X server the  *)
(* compositor talks to (windows, event selections, damage objects).        *)
(***************************************************************************)
EXTENDS Integers, Sequences, FiniteSets, TLC

(***************************************************************************)
(* Bounds of the model.                                                    *)
(***************************************************************************)
\* Events the connection holds at most (socket plus Xlib queue).
MaxQueue == 2
\* Ids add_window issues at most in one behaviour.
MaxId == 2

(***************************************************************************)
(* Values of the X protocol.                                               *)
(***************************************************************************)
\* X.h: #define None 0L
None == 0
\* Window XIDs the clients of the nested server use; an XID is reused after
\* its window is destroyed.
Handles == {1, 2}
\* The windows whose clients move or resize them.
Resizable == {1}
\* The windows that carry a WM_STATE property.
HasWmState == {2}
\* WM_TRANSIENT_FOR of each window (None: the property is not set).
TransientFor(h) == IF h = 2 THEN 1 ELSE None
\* _NET_WM_PID of each window (-1: the property is not set).
NetWmPid(h) == IF h = 1 THEN 100 ELSE -1
\* WM_CLASS and WM_NAME of each window ("": not set).
WmClass(h) == IF h = 1 THEN "term" ELSE ""
WmName(h) == IF h = 1 THEN "shell" ELSE ""
\* Geometries a window takes: the first is the one it is created with, the
\* others differ from it in height only, in width only, in position only.
Geom(w, h, x, y) == [width |-> w, height |-> h, x |-> x, y |-> y]
Geom0 == Geom(10, 10, 0, 0)
Geoms == {Geom0, Geom(10, 20, 0, 0), Geom(20, 10, 0, 0), Geom(10, 10, 100, 50)}

VARIABLES
    \* ---- X11Compositor (x11_compositor.hpp:47-74)
    display,              \* Display *display: TRUE when non-null
    display_number,       \* int display_number
    xephyr_pid,           \* pid_t xephyr_pid
    composite_available,  \* bool composite_available
    damage_available,     \* bool damage_available
    windows,              \* std::map<int, X11Window*> windows
    xwindow_to_id,        \* std::map<unsigned long, int> xwindow_to_id
    next_window_id,       \* int next_window_id
    initialized,          \* bool initialized
    \* ---- position of the single thread inside _process
    pc,                   \* "idle", "drain" (the while loop), "capture" (the for loop)
    cursor,               \* key of the registry entry the for loop visited last
    \* ---- the nested X server and the connection to it
    srv,                  \* the server's windows
    queue,                \* events sent to the connection and not yet dequeued
    xid_next,             \* next resource id XAllocID hands out on the connection
    \* ---- observation of the drain of the current tick (SpecDrain)
    tick_quota,           \* events queued at tick start and not yet handled
    \* ---- the input injector (x11_compositor.cpp:738-919)
    modifier_state,       \* static unsigned int modifier_state of send_key_event
    sent,                 \* what the last input call put on the connection
    \* ---- WaylandCompositor (wayland_compositor.hpp:47-66) and its clients
    wl,
    \* ---- one call of a function of its arguments alone: the arguments,
    \* ---- and the result once the call has returned (SpecPure)
    bench,
    \* ---- observation of the surfaces' content (SpecCache)
    stale                 \* per window XID: drawn into since its pixels were last read

vars == <<display, display_number, xephyr_pid, composite_available,
          damage_available, windows, xwindow_to_id, next_window_id, initialized,
          pc, cursor, srv, queue, xid_next, tick_quota, modifier_state, sent,
          wl, bench, stale>>

\* What the steps of the X11 compositor's lifecycle, tick and server leave
\* alone.
aside == <<modifier_state, sent, wl, bench, stale>>

prog == <<display, display_number, xephyr_pid, composite_available,
          damage_available, windows, xwindow_to_id, next_window_id, initialized>>

(***************************************************************************)
(* The X server: one record per window XID.                                *)
(***************************************************************************)
NoWindow == [exists |-> FALSE, viewable |-> FALSE, geom |-> Geom0,
             sel |-> FALSE, dmg |-> None, dirty |-> FALSE]

\* An event as the handlers read it: type, xany.window, the geometry of a
\* configure event, the damage XID of a damage event (the fields no handler
\* reads are left at Geom0 and None).
Event(t, h, g, d) == [type |-> t, window |-> h, geom |-> g, damage |-> d]

\* The server delivers a structure event of window h once for the
\* SubstructureNotifyMask selected on the root (initialize) and once more for
\* the StructureNotifyMask selected on h itself (add_window).
Notify(s, t, h) ==
    LET e == Event(t, h, IF t = "ConfigureNotify" THEN s[h].geom ELSE Geom0, None)
    IN  IF s[h].sel THEN <<e, e>> ELSE <<e>>

\* What XGetWindowAttributes and the WM_STATE query return for window h:
\* ok is the status of XGetWindowAttributes (0 when the window is gone).
Attributes(s, h) ==
    [ok |-> s[h].exists, input_only |-> FALSE,
     width |-> s[h].geom.width, height |-> s[h].geom.height,
     x |-> s[h].geom.x, y |-> s[h].geom.y,
     wm_state |-> h \in HasWmState, viewable |-> s[h].viewable]

\* XDamageDestroy(d): releases the damage object d if the server still
\* holds it (it is freed with its window), and is an error it ignores if not.
XDamageDestroy(s, d) ==
    [h \in Handles |->
        IF s[h].dmg = d /\ d # None
        THEN [s[h] EXCEPT !.dmg = None, !.dirty = FALSE] ELSE s[h]]

\* XDamageSubtract(d, None, None): empties the damage region of d.
XDamageSubtract(s, d) ==
    [h \in Handles |->
        IF s[h].dmg = d /\ d # None THEN [s[h] EXCEPT !.dirty = FALSE] ELSE s[h]]

Req(op, arg) == [op |-> op, arg |-> arg]

(***************************************************************************)
(* The compositor's operations, as functions of the state they read and    *)
(* write: st holds the registry, the reverse lookup, the id counter, the   *)
(* capability flags, and the server and connection the requests act on.    *)
(***************************************************************************)
EmptyMap == [k \in {} |-> 0]
MapPut(m, k, v) == [j \in DOMAIN m \cup {k} |-> IF j = k THEN v ELSE m[j]]
MapErase(m, k) == [j \in DOMAIN m \ {k} |-> m[j]]

\* std::vector<uint8_t> image_data, by its size().
NoImage == 0

\* A defect: the filter without its test of the size.
should_track_any_size(a) ==
    IF ~a.ok THEN FALSE
    ELSE IF a.input_only THEN FALSE
    ELSE IF a.wm_state THEN TRUE
    ELSE a.viewable

\* X11Compositor::should_track_window, on the attributes it queries.
should_track(a) ==
    IF ~a.ok THEN FALSE
    ELSE IF a.input_only THEN FALSE
    ELSE IF a.width < 10 \/ a.height < 10 THEN FALSE
    ELSE IF a.wm_state THEN TRUE
    ELSE a.viewable

should_track_window(st, xwin) == should_track(Attributes(st.srv, xwin))

\* A defect: the id is derived from the number of tracked windows.
TakeIdBySize(st) ==
    [id |-> Cardinality(DOMAIN st.windows) + 1,
     next_window_id |-> Cardinality(DOMAIN st.windows) + 2]

\* int window_id = next_window_id++ in add_window: the id issued and the
\* counter after it.
TakeId(st) == [id |-> st.next_window_id, next_window_id |-> st.next_window_id + 1]

\* A defect: add_window without its two early returns.
add_window_unguarded(st, xwin) ==
    LET a == Attributes(st.srv, xwin)
        id == TakeId(st).id
        d == IF st.damage_available THEN st.xid_next ELSE None
        window ==
          [id |-> id, xwindow |-> xwin,
           width |-> a.width, height |-> a.height, x |-> a.x, y |-> a.y,
           damage |-> d, mapped |-> a.viewable,
           image_data |-> NoImage, has_image |-> FALSE,
           wm_class |-> WmClass(xwin), wm_name |-> WmName(xwin),
           pid |-> NetWmPid(xwin), parent_window_id |-> -1]
    IN  [st EXCEPT
           !.next_window_id = TakeId(st).next_window_id,
           !.windows = MapPut(st.windows, id, window),
           !.xwindow_to_id = MapPut(st.xwindow_to_id, xwin, id),
           !.xid_next = IF st.damage_available THEN @ + 1 ELSE @]

\* X11Compositor::add_window
add_window(st, xwin) ==
    IF xwin \in DOMAIN st.xwindow_to_id THEN st
    ELSE IF ~Attributes(st.srv, xwin).ok THEN st
    ELSE
      LET a == Attributes(st.srv, xwin)
          id == TakeId(st).id
          parent_xwin == TransientFor(xwin)
          d == IF st.damage_available THEN st.xid_next ELSE None
          window ==
            [id |-> id, xwindow |-> xwin,
             width |-> a.width, height |-> a.height, x |-> a.x, y |-> a.y,
             damage |-> d, mapped |-> a.viewable,
             image_data |-> NoImage, has_image |-> FALSE,
             wm_class |-> WmClass(xwin), wm_name |-> WmName(xwin),
             pid |-> NetWmPid(xwin),
             parent_window_id |->
                IF parent_xwin # None /\ parent_xwin \in DOMAIN st.xwindow_to_id
                THEN st.xwindow_to_id[parent_xwin] ELSE -1]
      IN  [st EXCEPT
             !.next_window_id = TakeId(st).next_window_id,
             !.windows = MapPut(st.windows, id, window),
             !.xwindow_to_id = MapPut(st.xwindow_to_id, xwin, id),
             !.xid_next = IF st.damage_available THEN @ + 1 ELSE @,
             !.srv[xwin] = [@ EXCEPT !.sel = TRUE, !.dmg = d, !.dirty = FALSE],
             !.reqs = @ \o (IF st.damage_available
                            THEN <<Req("XDamageCreate", d)>> ELSE <<>>)
                        \o <<Req("XSelectInput", xwin)>>]

\* A defect: the record is erased and the reverse lookup entry is left.
remove_window_keeping_lookup(st, xwin) ==
    IF xwin \notin DOMAIN st.xwindow_to_id THEN st
    ELSE [st EXCEPT !.windows = MapErase(@, st.xwindow_to_id[xwin])]

\* A defect: the path that releases a damage object returns early.
remove_window_unless_damage(st, xwin) ==
    IF xwin \notin DOMAIN st.xwindow_to_id THEN st
    ELSE
      LET window_id == st.xwindow_to_id[xwin]
          window == st.windows[window_id]
      IN  IF st.damage_available /\ window.damage # None
          THEN [st EXCEPT !.srv = XDamageDestroy(@, window.damage)]
          ELSE [st EXCEPT !.windows = MapErase(@, window_id),
                          !.xwindow_to_id = MapErase(@, xwin)]

\* X11Compositor::remove_window
remove_window(st, xwin) ==
    IF xwin \notin DOMAIN st.xwindow_to_id THEN st
    ELSE
      LET window_id == st.xwindow_to_id[xwin]
          window == st.windows[window_id]
          release == st.damage_available /\ window.damage # None
      IN  [st EXCEPT
             !.srv = IF release THEN XDamageDestroy(@, window.damage) ELSE @,
             !.reqs = IF release
                      THEN @ \o <<Req("XSync", 0),
                                  Req("XDamageDestroy", window.damage),
                                  Req("XSync", 0)>>
                      ELSE @,
             !.windows = MapErase(@, window_id),
             !.xwindow_to_id = MapErase(@, xwin)]

\* X11Compositor::handle_create_notify
handle_create_notify(st, event) ==
    IF should_track_window(st, event.window)
    THEN add_window(st, event.window) ELSE st

\* X11Compositor::handle_destroy_notify
handle_destroy_notify(st, event) == remove_window(st, event.window)

\* A defect: a map event of an untracked window is dropped.
handle_map_notify_tracked_only(st, event) ==
    IF event.window \in DOMAIN st.xwindow_to_id
    THEN [st EXCEPT !.windows[st.xwindow_to_id[event.window]].mapped = TRUE]
    ELSE st

\* A defect: a map event only adds windows and leaves the flag of a tracked
\* window as it is.
handle_map_notify_adding_only(st, event) ==
    IF event.window \in DOMAIN st.xwindow_to_id THEN st
    ELSE IF should_track_window(st, event.window)
    THEN add_window(st, event.window)
    ELSE st

\* X11Compositor::handle_map_notify
handle_map_notify(st, event) ==
    IF event.window \in DOMAIN st.xwindow_to_id
    THEN [st EXCEPT !.windows[st.xwindow_to_id[event.window]].mapped = TRUE]
    ELSE IF should_track_window(st, event.window)
    THEN add_window(st, event.window)
    ELSE st

\* A defect: an unmap event of a tracked window clears the flag of every
\* window.
handle_unmap_notify_all(st, event) ==
    IF event.window \in DOMAIN st.xwindow_to_id
    THEN [st EXCEPT !.windows = [id \in DOMAIN @ |-> [@[id] EXCEPT !.mapped = FALSE]]]
    ELSE st

\* X11Compositor::handle_unmap_notify
handle_unmap_notify(st, event) ==
    IF event.window \in DOMAIN st.xwindow_to_id
    THEN [st EXCEPT !.windows[st.xwindow_to_id[event.window]].mapped = FALSE]
    ELSE st

\* A defect: only a change of height invalidates the image.
handle_configure_notify_height_only(st, event) ==
    IF event.window \in DOMAIN st.xwindow_to_id
    THEN
      LET id == st.xwindow_to_id[event.window]
          window == st.windows[id]
      IN  [st EXCEPT !.windows[id] =
             [@ EXCEPT !.width = event.geom.width,
                       !.height = event.geom.height,
                       !.x = event.geom.x,
                       !.y = event.geom.y,
                       !.has_image = IF window.height # event.geom.height
                                     THEN FALSE ELSE @]]
    ELSE st

\* A defect: the new size is stored and the image is left valid.
handle_configure_notify_keeping_image(st, event) ==
    IF event.window \in DOMAIN st.xwindow_to_id
    THEN [st EXCEPT !.windows[st.xwindow_to_id[event.window]] =
             [@ EXCEPT !.width = event.geom.width,
                       !.height = event.geom.height,
                       !.x = event.geom.x,
                       !.y = event.geom.y]]
    ELSE st

\* A defect: a configure event stores the new position and leaves the
\* cached size as it is.
handle_configure_notify_moving_only(st, event) ==
    IF event.window \in DOMAIN st.xwindow_to_id
    THEN [st EXCEPT !.windows[st.xwindow_to_id[event.window]] =
             [@ EXCEPT !.x = event.geom.x, !.y = event.geom.y]]
    ELSE st

\* X11Compositor::handle_configure_notify
handle_configure_notify(st, event) ==
    IF event.window \in DOMAIN st.xwindow_to_id
    THEN
      LET id == st.xwindow_to_id[event.window]
          window == st.windows[id]
          size_changed == window.width # event.geom.width
                          \/ window.height # event.geom.height
      IN  [st EXCEPT !.windows[id] =
             [@ EXCEPT !.width = event.geom.width,
                       !.height = event.geom.height,
                       !.x = event.geom.x,
                       !.y = event.geom.y,
                       !.has_image = IF size_changed THEN FALSE ELSE @]]
    ELSE st

\* The first registry entry, in key order, whose damage object is d
\* (0 when there is none): the search loop of handle_damage_notify.
FindDamage(st, d) ==
    LET hit == {id \in DOMAIN st.windows : st.windows[id].damage = d}
    IN  IF hit = {} THEN 0 ELSE CHOOSE id \in hit : \A j \in hit : id <= j

\* A defect: the damage region is not emptied, so that the server reports
\* no further damage.
handle_damage_notify_keeping_region(st, event) ==
    LET id == FindDamage(st, event.damage)
    IN  IF id = 0 THEN st
        ELSE [st EXCEPT !.windows[id].has_image = FALSE]

\* A defect: a damage event invalidates the image of every window.
handle_damage_notify_all(st, event) ==
    [st EXCEPT
        !.srv = XDamageSubtract(@, event.damage),
        !.windows = [id \in DOMAIN @ |-> [@[id] EXCEPT !.has_image = FALSE]]]

\* X11Compositor::handle_damage_notify
handle_damage_notify(st, event) ==
    LET id == FindDamage(st, event.damage)
    IN  IF id = 0 THEN st
        ELSE [st EXCEPT
                !.srv = XDamageSubtract(@, st.windows[id].damage),
                !.reqs = @ \o <<Req("XDamageSubtract", st.windows[id].damage)>>,
                !.windows[id].has_image = FALSE]

\* The switch of X11Compositor::_process on the type of a dequeued event.
Dispatch(st, event) ==
    CASE event.type = "CreateNotify" -> handle_create_notify(st, event)
      [] event.type = "DestroyNotify" -> handle_destroy_notify(st, event)
      [] event.type = "MapNotify" -> handle_map_notify(st, event)
      [] event.type = "UnmapNotify" -> handle_unmap_notify(st, event)
      [] event.type = "ConfigureNotify" -> handle_configure_notify(st, event)
      [] OTHER ->
           IF st.damage_available /\ event.type = "DamageNotify"
           THEN handle_damage_notify(st, event) ELSE st

\* What the server answers to the pixel read of one capture.  The pixels are
\* there only if the window exists, is viewable (a redirected window has an
\* off-screen pixmap only while it is viewable) and the rectangle asked for,
\* the cached width x height, lies inside the pixmap; a read may fail anyway.
CaptureOutcomes(st, id) ==
    LET window == st.windows[id]
        w == st.srv[window.xwindow]
    IN  {"nopixmap", "noimage"} \cup
        (IF w.exists /\ w.viewable /\ window.width <= w.geom.width
                                   /\ window.height <= w.geom.height
         THEN {"bpp32", "bppOther"} ELSE {})

\* A defect: a valid image stops the capture whether or not damage events
\* would invalidate it.
capture_window_contents_cached(st, id, o) ==
    LET window == st.windows[id]
        size == window.width * window.height * 4
        named == <<Req("XCompositeNameWindowPixmap", window.xwindow)>>
        read == named \o <<Req("XGetImage", window.xwindow)>>
    IN  IF ~st.composite_available \/ ~window.mapped THEN st
        ELSE IF window.has_image THEN st
        ELSE IF window.width <= 0 \/ window.height <= 0 THEN st
        ELSE IF o = "nopixmap" THEN [st EXCEPT !.reqs = @ \o named]
        ELSE IF o = "noimage"
        THEN [st EXCEPT !.reqs = @ \o read \o <<Req("XFreePixmap", window.xwindow)>>]
        ELSE [st EXCEPT
                !.reqs = @ \o read \o <<Req("XDestroyImage", window.xwindow),
                                        Req("XFreePixmap", window.xwindow)>>,
                !.windows[id].image_data = size,
                !.windows[id].has_image = IF o = "bpp32" THEN TRUE ELSE @]

\* A defect: the capture does not ask whether compositing is available.
capture_window_contents_unredirected(st, id, o) ==
    LET window == st.windows[id]
        size == window.width * window.height * 4
        named == <<Req("XCompositeNameWindowPixmap", window.xwindow)>>
        read == named \o <<Req("XGetImage", window.xwindow)>>
    IN  IF ~window.mapped THEN st
        ELSE IF window.has_image /\ st.damage_available THEN st
        ELSE IF window.width <= 0 \/ window.height <= 0 THEN st
        ELSE IF o = "nopixmap" THEN [st EXCEPT !.reqs = @ \o named]
        ELSE IF o = "noimage"
        THEN [st EXCEPT !.reqs = @ \o read \o <<Req("XFreePixmap", window.xwindow)>>]
        ELSE [st EXCEPT
                !.reqs = @ \o read \o <<Req("XDestroyImage", window.xwindow),
                                        Req("XFreePixmap", window.xwindow)>>,
                !.windows[id].image_data = size,
                !.windows[id].has_image = IF o = "bpp32" THEN TRUE ELSE @]

\* A defect: a valid image does not stop the capture.
capture_window_contents_always(st, id, o) ==
    LET window == st.windows[id]
        size == window.width * window.height * 4
        named == <<Req("XCompositeNameWindowPixmap", window.xwindow)>>
        read == named \o <<Req("XGetImage", window.xwindow)>>
    IN  IF ~st.composite_available \/ ~window.mapped THEN st
        ELSE IF window.width <= 0 \/ window.height <= 0 THEN st
        ELSE IF o = "nopixmap" THEN [st EXCEPT !.reqs = @ \o named]
        ELSE IF o = "noimage"
        THEN [st EXCEPT !.reqs = @ \o read \o <<Req("XFreePixmap", window.xwindow)>>]
        ELSE [st EXCEPT
                !.reqs = @ \o read \o <<Req("XDestroyImage", window.xwindow),
                                        Req("XFreePixmap", window.xwindow)>>,
                !.windows[id].image_data = size,
                !.windows[id].has_image = IF o = "bpp32" THEN TRUE ELSE @]

\* A defect: a capture that obtains no pixels marks the image invalid.
capture_window_contents_invalidating(st, id, o) ==
    LET window == st.windows[id]
        size == window.width * window.height * 4
        named == <<Req("XCompositeNameWindowPixmap", window.xwindow)>>
        read == named \o <<Req("XGetImage", window.xwindow)>>
    IN  IF ~st.composite_available \/ ~window.mapped THEN st
        ELSE IF window.has_image /\ st.damage_available THEN st
        ELSE IF window.width <= 0 \/ window.height <= 0 THEN st
        ELSE IF o = "nopixmap"
        THEN [st EXCEPT !.reqs = @ \o named, !.windows[id].has_image = FALSE]
        ELSE IF o = "noimage"
        THEN [st EXCEPT !.reqs = @ \o read \o <<Req("XFreePixmap", window.xwindow)>>,
                        !.windows[id].has_image = FALSE]
        ELSE [st EXCEPT
                !.reqs = @ \o read \o <<Req("XDestroyImage", window.xwindow),
                                        Req("XFreePixmap", window.xwindow)>>,
                !.windows[id].image_data = size,
                !.windows[id].has_image = (o = "bpp32")]

\* X11Compositor::capture_window_contents, o being the server's answer.
capture_window_contents(st, id, o) ==
    LET window == st.windows[id]
        size == window.width * window.height * 4
        named == <<Req("XCompositeNameWindowPixmap", window.xwindow)>>
        read == named \o <<Req("XGetImage", window.xwindow)>>
    IN  IF ~st.composite_available \/ ~window.mapped THEN st
        ELSE IF window.has_image /\ st.damage_available THEN st
        ELSE IF window.width <= 0 \/ window.height <= 0 THEN st
        ELSE IF o = "nopixmap" THEN [st EXCEPT !.reqs = @ \o named]
        ELSE IF o = "noimage"
        THEN [st EXCEPT !.reqs = @ \o read \o <<Req("XFreePixmap", window.xwindow)>>]
        ELSE [st EXCEPT
                !.reqs = @ \o read \o <<Req("XDestroyImage", window.xwindow),
                                        Req("XFreePixmap", window.xwindow)>>,
                !.windows[id].image_data = size,
                !.windows[id].has_image = IF o = "bpp32" THEN TRUE ELSE @]

\* A source image of 32-bit pixels as the server or a client hands it over:
\* data is the byte at each offset of its rows of stride bytes; a pixel is
\* a 32-bit value whose red channel sits red_shift bits up (16 or 0, blue
\* at the other place, green at 8) and whose top byte is alpha if the
\* format carries alpha and padding if not; byte_order is the order of the
\* value's bytes in memory.
SourceImage(width, height, stride, bits_per_pixel, byte_order, red_shift, alpha, data) ==
    [width |-> width, height |-> height, stride |-> stride,
     bits_per_pixel |-> bits_per_pixel, byte_order |-> byte_order,
     red_shift |-> red_shift, alpha |-> alpha, data |-> data]

\* The offset within a pixel of the byte that holds the bits from shift up.
ByteAt(image, shift) ==
    IF image.byte_order = "LSBFirst" THEN shift \div 8 ELSE 3 - (shift \div 8)

\* The red, green, blue and top byte of the source pixel at (x, y).
Channel(image, x, y, shift) ==
    image.data[y * image.stride + 4 * x + ByteAt(image, shift)]

\* What a conversion leaves: the bytes of image_data from offset 0, and
\* whether the window has an image afterwards.
Converted(size, byte, has_image) ==
    [size |-> size, image_data |-> [i \in 0 .. (size - 1) |-> byte[i]],
     has_image |-> has_image]

\* A defect: the rows of the source are taken to be width * 4 bytes long.
ConvertXImage_packed(image) ==
    LET size == image.width * image.height * 4
        src_idx(i) == ((i \div 4) \div image.width) * (image.width * 4)
                         + ((i \div 4) % image.width) * 4
    IN  Converted(size,
                  [i \in 0 .. (size - 1) |->
                      CASE i % 4 = 0 -> image.data[src_idx(i) + 2]
                        [] i % 4 = 1 -> image.data[src_idx(i) + 1]
                        [] i % 4 = 2 -> image.data[src_idx(i) + 0]
                        [] OTHER -> 255],
                  TRUE)

\* The conversion in X11Compositor::capture_window_contents of the XImage
\* XGetImage returned into the image_data of a window that had none:
\* byte 2, 1 and 0 of each pixel become red, green and blue, alpha is 255;
\* an image of another depth leaves the resized buffer as it is.
ConvertXImage(image) ==
    LET size == image.width * image.height * 4
        src_idx(i) == ((i \div 4) \div image.width) * image.stride
                         + ((i \div 4) % image.width) * 4
    IN  IF image.bits_per_pixel = 32
        THEN Converted(size,
                       [i \in 0 .. (size - 1) |->
                           CASE i % 4 = 0 -> image.data[src_idx(i) + 2]
                             [] i % 4 = 1 -> image.data[src_idx(i) + 1]
                             [] i % 4 = 2 -> image.data[src_idx(i) + 0]
                             [] OTHER -> 255],
                       TRUE)
        ELSE Converted(size, [i \in 0 .. (size - 1) |-> 0], FALSE)

\* X11Compositor::scan_existing_windows, children being what XQueryTree
\* returns: the root's children in stacking order.
RECURSIVE scan_existing_windows(_, _)
scan_existing_windows(st, children) ==
    IF children = <<>> THEN st
    ELSE scan_existing_windows(
             IF should_track_window(st, Head(children))
             THEN add_window(st, Head(children)) ELSE st,
             Tail(children))

\* The release loop of X11Compositor::cleanup over the registry.
RECURSIVE ReleaseAll(_, _)
ReleaseAll(st, ids) ==
    IF ids = {} THEN st
    ELSE LET id == CHOOSE i \in ids : \A j \in ids : i <= j
             d == st.windows[id].damage
         IN  ReleaseAll(
                 IF st.damage_available /\ d # None
                 THEN [st EXCEPT !.srv = XDamageDestroy(@, d),
                                 !.reqs = @ \o <<Req("XDamageDestroy", d)>>]
                 ELSE st,
                 ids \ {id})

\* A defect: cleanup releases the damage objects but does not clear the maps.
cleanup_keeping_registry(st) ==
    IF ~st.initialized THEN st
    ELSE [ReleaseAll(st, DOMAIN st.windows) EXCEPT
             !.display = FALSE, !.xephyr_pid = 0, !.initialized = FALSE]

\* A defect: cleanup also puts the id counter back to its first value.
cleanup_resetting_ids(st) ==
    IF ~st.initialized THEN st
    ELSE [ReleaseAll(st, DOMAIN st.windows) EXCEPT
             !.windows = EmptyMap, !.xwindow_to_id = EmptyMap,
             !.next_window_id = 1,
             !.display = FALSE, !.xephyr_pid = 0, !.initialized = FALSE]

\* A defect: cleanup also clears the latched modifier state.
cleanup_resetting_latch(st) ==
    IF ~st.initialized THEN st
    ELSE [ReleaseAll(st, DOMAIN st.windows) EXCEPT
             !.windows = EmptyMap, !.xwindow_to_id = EmptyMap,
             !.modifier_state = 0,
             !.display = FALSE, !.xephyr_pid = 0, !.initialized = FALSE]

\* A defect: cleanup closes the connection and leaves the registry to the
\* next initialize.
cleanup_closing_only(st) ==
    IF ~st.initialized THEN st
    ELSE [st EXCEPT
             !.reqs = @ \o (IF st.display THEN <<Req("XCloseDisplay", 0)>> ELSE <<>>)
                        \o (IF st.xephyr_pid > 0 THEN <<Req("kill", 0)>> ELSE <<>>),
             !.display = FALSE,
             !.xephyr_pid = 0,
             !.initialized = FALSE]

\* X11Compositor::cleanup: nothing when not initialized; otherwise the
\* registry is released and cleared, redirection is switched off, the
\* connection is closed and the server subprocess is killed and reaped.
cleanup(st) ==
    IF ~st.initialized THEN st
    ELSE [ReleaseAll(st, DOMAIN st.windows) EXCEPT
             !.windows = EmptyMap,
             !.xwindow_to_id = EmptyMap,
             !.reqs = @ \o (IF st.composite_available
                            THEN <<Req("XCompositeUnredirectSubwindows", 0)>>
                            ELSE <<>>)
                        \o (IF st.display THEN <<Req("XCloseDisplay", 0)>> ELSE <<>>)
                        \o (IF st.xephyr_pid > 0 THEN <<Req("kill", 0)>> ELSE <<>>),
             !.display = FALSE,
             !.xephyr_pid = 0,
             !.initialized = FALSE]

(***************************************************************************)
(* WaylandCompositor: the variant on wlroots (wayland_compositor.cpp).     *)
(* Its state is one record; a pointer member is TRUE when non-null.        *)
(***************************************************************************)
\* A client's xdg surface as the compositor library holds it: gone is a
\* surface that was destroyed, whose memory is freed.
NoSurface == [exists |-> FALSE, gone |-> FALSE, toplevel |-> FALSE,
              buffer |-> FALSE, width |-> 0, height |-> 0]

\* WaylandCompositor::WaylandCompositor
NewWayland ==
    [wl_display |-> FALSE, backend |-> FALSE, renderer |-> FALSE,
     allocator |-> FALSE, compositor |-> FALSE, xdg_shell |-> FALSE,
     listening |-> FALSE, socket_name |-> FALSE,
     windows |-> EmptyMap, next_window_id |-> 1, initialized |-> FALSE,
     surfaces |-> [h \in Handles |-> NoSurface], ret |-> FALSE]

\* WaylandCompositor::cleanup: nothing when not initialized; otherwise the
\* window records are deleted, the listener is unlinked and allocator,
\* renderer, backend and display are destroyed and set to null.
WaylandCompositor_cleanup(w) ==
    IF ~w.initialized THEN w
    ELSE [w EXCEPT !.windows = EmptyMap,
                   !.listening = IF w.xdg_shell THEN FALSE ELSE @,
                   !.allocator = FALSE,
                   !.renderer = FALSE,
                   !.backend = FALSE,
                   !.wl_display = FALSE,
                   !.initialized = FALSE]

\* The objects initialize creates, in order; each may fail to be created.
WlStages ==
    <<"wl_display", "backend", "renderer", "allocator", "compositor",
      "xdg_shell", "socket", "start">>

WlOk == Len(WlStages) + 1

\* The pointer of stage k when the creation of stage n fails: set when
\* created, null when its creation failed, untouched when not reached.
Made(old, k, n) == IF n > k THEN TRUE ELSE IF n = k THEN FALSE ELSE old

\* WaylandCompositor::initialize past its early return, the creation of
\* stage n failing (WlOk: none fails).
WaylandCompositor_initialize_fresh(w, n) ==
    LET reached == [w EXCEPT !.wl_display = Made(@, 1, n),
                             !.backend = Made(@, 2, n),
                             !.renderer = Made(@, 3, n),
                             !.allocator = Made(@, 4, n),
                             !.compositor = Made(@, 5, n),
                             !.xdg_shell = Made(@, 6, n),
                             !.listening = IF n > 6 THEN TRUE ELSE @,
                             !.socket_name = IF n > 7 THEN TRUE ELSE @]
    IN  IF n = 1 THEN [reached EXCEPT !.ret = FALSE]
        ELSE IF n < WlOk
        THEN [WaylandCompositor_cleanup(reached) EXCEPT !.ret = FALSE]
        ELSE [reached EXCEPT !.initialized = TRUE, !.ret = TRUE]

\* A defect: initialize without its early return.
WaylandCompositor_initialize_unguarded(w, n) ==
    WaylandCompositor_initialize_fresh(w, n)

\* WaylandCompositor::initialize
WaylandCompositor_initialize(w, n) ==
    IF w.initialized THEN [w EXCEPT !.ret = TRUE]
    ELSE WaylandCompositor_initialize_fresh(w, n)

\* WaylandCompositor::handle_new_xdg_surface for the surface h
WaylandCompositor_handle_new_xdg_surface(w, h) ==
    IF ~w.surfaces[h].toplevel THEN w
    ELSE [w EXCEPT !.windows = MapPut(@, w.next_window_id,
                                      [id |-> w.next_window_id, toplevel |-> h,
                                       width |-> 0, height |-> 0]),
                   !.next_window_id = @ + 1]

\* WaylandCompositor::handle_xdg_surface_commit for the window id, the
\* surface's current size being width x height.
WaylandCompositor_handle_xdg_surface_commit(w, id, width, height) ==
    IF width > 0 /\ height > 0
    THEN [w EXCEPT !.windows[id].width = width, !.windows[id].height = height]
    ELSE w

\* WaylandCompositor::handle_xdg_toplevel_destroy: the listeners are
\* unlinked; the record stays in the map, its toplevel pointer dangling.
WaylandCompositor_handle_xdg_toplevel_destroy(w, id) == w

\* What a call of a Wayland accessor does: the image it returns (null:
\* Ref<Image>()) and whether it read pixels of the client's buffer.
WlResult(null, width, height, read) ==
    [null |-> null, width |-> width, height |-> height, read |-> read]

\* WaylandCompositor::get_window_buffer: the set of results the call may
\* have; access is whether wlr_buffer_begin_data_ptr_access succeeds.  A
\* record whose toplevel was destroyed is read through a dangling pointer,
\* with any result.
WaylandCompositor_get_window_buffer(w, window_id, access) ==
    IF window_id \notin DOMAIN w.windows THEN {WlResult(TRUE, 0, 0, FALSE)}
    ELSE LET window == w.windows[window_id]
             surface == w.surfaces[window.toplevel]
         IN  IF surface.gone
             THEN {WlResult(TRUE, 0, 0, FALSE)} \cup
                  {WlResult(FALSE, window.width, window.height, r) : r \in BOOLEAN}
             ELSE IF ~surface.buffer \/ ~access
             THEN {WlResult(TRUE, 0, 0, FALSE)}
             ELSE IF window.width <= 0 \/ window.height <= 0
             THEN {WlResult(TRUE, 0, 0, FALSE)}
             ELSE {WlResult(FALSE, window.width, window.height, TRUE)}

\* The conversion in WaylandCompositor::get_window_buffer of the client's
\* buffer into the image returned: byte 2, 1, 0 and 3 of each pixel become
\* red, green, blue and alpha; the format the access reported is not read.
WaylandCompositor_ConvertBuffer(image) ==
    LET size == image.width * image.height * 4
        src_offset(i) == ((i \div 4) \div image.width) * image.stride
                            + ((i \div 4) % image.width) * 4
    IN  Converted(size,
                  [i \in 0 .. (size - 1) |->
                      image.data[src_offset(i) + CASE i % 4 = 0 -> 2
                                                  [] i % 4 = 1 -> 1
                                                  [] i % 4 = 2 -> 0
                                                  [] OTHER -> 3]],
                  TRUE)

\* WaylandCompositor::get_window_ids
WaylandCompositor_get_window_ids(w) == DOMAIN w.windows

\* WaylandCompositor::get_window_size: the size the record holds, (0, 0)
\* for an id the map does not have.
WaylandCompositor_get_window_size(w, window_id) ==
    IF window_id \notin DOMAIN w.windows THEN <<0, 0>>
    ELSE <<w.windows[window_id].width, w.windows[window_id].height>>

\* WaylandCompositor::get_socket_name: the member as it is; TRUE stands for
\* the non-empty name wl_display_add_socket_auto gave, FALSE for "".
WaylandCompositor_get_socket_name(w) == w.socket_name

\* WaylandCompositor::is_initialized
WaylandCompositor_is_initialized(w) == w.initialized

(***************************************************************************)
(* The state machine.                                                      *)
(***************************************************************************)
\* The part of the state the operations above work on, with an empty
\* request log.
Cur ==
    [windows |-> windows, xwindow_to_id |-> xwindow_to_id,
     next_window_id |-> next_window_id,
     composite_available |-> composite_available,
     damage_available |-> damage_available,
     display |-> display, display_number |-> display_number,
     xephyr_pid |-> xephyr_pid, initialized |-> initialized,
     modifier_state |-> modifier_state,
     srv |-> srv, xid_next |-> xid_next, reqs |-> <<>>, ret |-> FALSE]

\* The next state takes what an operation returned.
Becomes(st) ==
    /\ st.next_window_id <= MaxId + 1
    /\ windows' = st.windows
    /\ xwindow_to_id' = st.xwindow_to_id
    /\ next_window_id' = st.next_window_id
    /\ composite_available' = st.composite_available
    /\ damage_available' = st.damage_available
    /\ srv' = st.srv
    /\ xid_next' = st.xid_next

\* The same for an operation that works on the connection and the
\* subprocess as well; the latch of send_key_event, a static of the
\* process, is whatever the operation left of it.
BecomesAll(st) ==
    /\ Becomes(st)
    /\ display' = st.display
    /\ display_number' = st.display_number
    /\ xephyr_pid' = st.xephyr_pid
    /\ initialized' = st.initialized
    /\ modifier_state' = st.modifier_state

NoServer == [h \in Handles |-> NoWindow]

\* The windows other clients may have created on the fresh server by the
\* time initialize scans it.
PreServers ==
    [Handles -> {NoWindow} \cup
                {[NoWindow EXCEPT !.exists = TRUE, !.viewable = v] : v \in BOOLEAN}]

\* The orders in which XQueryTree may list the windows of s.
ScanOrders(s) ==
    LET live == {h \in Handles : s[h].exists}
    IN  {q \in UNION {[1..n -> live] : n \in {Cardinality(live)}} :
            \A i, j \in DOMAIN q : i # j => q[i] # q[j]}

\* No call of such a function is under way.
NoBench == [kind |-> "none", done |-> FALSE, args |-> <<>>, result |-> <<>>]

\* X11Compositor::X11Compositor, WaylandCompositor::WaylandCompositor, and
\* an empty session.
Constructed ==
    /\ display = FALSE
    /\ display_number = 0
    /\ xephyr_pid = 0
    /\ composite_available = FALSE
    /\ damage_available = FALSE
    /\ windows = EmptyMap
    /\ xwindow_to_id = EmptyMap
    /\ next_window_id = 1
    /\ initialized = FALSE
    /\ pc = "idle"
    /\ cursor = 0
    /\ srv = NoServer
    /\ queue = <<>>
    /\ xid_next = 1
    /\ tick_quota = 0
    /\ modifier_state = 0
    /\ sent = <<>>
    /\ wl = NewWayland
    /\ stale = [h \in Handles |-> FALSE]

Init == Constructed /\ bench = NoBench

\* What the environment answers to one call of initialize: how far the
\* call gets, and on success what the two probes and the scan find.
InitAnswer(how, comp, dmg, pre, children) ==
    [how |-> how, comp |-> comp, dmg |-> dmg, pre |-> pre, children |-> children]

InitFailures ==
    {InitAnswer(how, FALSE, FALSE, NoServer, <<>>) :
        how \in {"no_display", "no_fork", "died", "timeout", "no_connection"}}

InitAnswers ==
    InitFailures \cup
    UNION {UNION {{InitAnswer("ok", comp, dmg, pre, children) :
                      comp \in BOOLEAN, dmg \in BOOLEAN} :
                  children \in ScanOrders(pre)} :
           pre \in PreServers}

\* X11Compositor::launch_xephyr: fork failing leaves xephyr_pid alone; the
\* child dying or never answering resets it to 0; otherwise it holds the
\* pid of the running server.
launch_xephyr(st, how) ==
    CASE how = "no_fork" -> [st EXCEPT !.ret = FALSE]
      [] how \in {"died", "timeout"} -> [st EXCEPT !.xephyr_pid = 0, !.ret = FALSE]
      [] OTHER -> [st EXCEPT !.xephyr_pid = 1, !.ret = TRUE]

\* X11Compositor::initialize past its early return: a display number is
\* picked, the server is launched, the connection is opened (a failure
\* there calls cleanup), the two extensions are probed and the windows the
\* server already has are scanned.
initialize_fresh(st, o) ==
    IF o.how = "no_display"
    THEN [st EXCEPT !.display_number = -1, !.ret = FALSE]
    ELSE LET launched == launch_xephyr([st EXCEPT !.display_number = 1], o.how)
         IN  IF ~launched.ret THEN launched
             ELSE IF o.how = "no_connection"
             THEN [cleanup([launched EXCEPT !.display = FALSE]) EXCEPT !.ret = FALSE]
             ELSE [scan_existing_windows(
                       [launched EXCEPT !.display = TRUE,
                                        !.composite_available = o.comp,
                                        !.damage_available = o.dmg,
                                        !.srv = o.pre, !.xid_next = 1],
                       o.children)
                      EXCEPT !.initialized = TRUE, !.ret = TRUE]

\* A defect: initialize without its early return.
initialize_unguarded(st, o) ==
    initialize_fresh(st, o)

\* X11Compositor::initialize
initialize(st, o) ==
    IF st.initialized THEN [st EXCEPT !.ret = TRUE]
    ELSE initialize_fresh(st, o)

\* X11Compositor::initialize when already initialized; the environment is
\* not consulted, so one kind of answer stands for all of them here.
InitializeAgain ==
    /\ pc = "idle"
    /\ initialized
    /\ \E o \in InitFailures : BecomesAll(initialize(Cur, o))
    /\ UNCHANGED <<pc, cursor, queue, tick_quota, sent, wl, bench, stale>>

\* X11Compositor::initialize failing: no free display number, the server
\* subprocess not starting, or the connection to it not opening.
InitializeFail ==
    /\ pc = "idle"
    /\ ~initialized
    /\ \E o \in InitFailures : BecomesAll(initialize(Cur, o))
    /\ UNCHANGED <<pc, cursor, queue, tick_quota, sent, wl, bench, stale>>

\* X11Compositor::initialize succeeding: probes the two extensions, then
\* scans the windows the server already has.
Initialize ==
    /\ pc = "idle"
    /\ ~initialized
    /\ \E o \in InitAnswers \ InitFailures : BecomesAll(initialize(Cur, o))
    /\ queue' = <<>>
    /\ UNCHANGED <<pc, cursor, tick_quota, sent, wl, bench, stale>>

\* X11Compositor::cleanup (from _exit_tree); when it kills the server
\* subprocess the windows and the events in flight are gone with it.
Cleanup ==
    /\ pc = "idle"
    /\ BecomesAll([cleanup(Cur) EXCEPT
                      !.srv = IF initialized THEN NoServer ELSE @,
                      !.xid_next = IF initialized THEN 1 ELSE @])
    /\ queue' = IF initialized THEN <<>> ELSE queue
    /\ UNCHANGED <<pc, cursor, tick_quota, sent, wl, bench, stale>>

(* _process runs in steps, one per interaction with the connection: the    *)
(* statements between two interactions touch only the compositor's own     *)
(* fields and are taken with the interaction before them.  pc is "idle"    *)
(* between two calls, "drain" inside the while loop and "capture" inside   *)
(* the for loop.                                                           *)

\* capture_window_contents passes its guards for registry entry id and goes
\* on to ask the server for pixels.
Reads(st, id) == capture_window_contents(st, id, "noimage").reqs # st.reqs

\* The registry entries after key c that the for loop of _process hands to
\* capture_window_contents and that make it read pixels.
ToCapture(st, c) ==
    {id \in DOMAIN st.windows : id > c /\ st.windows[id].mapped /\ Reads(st, id)}

\* The loop of _process runs on from entry c of the registry: up to the next
\* pixel read, or to the end of the loop and of _process.
LoopOn(st, c) ==
    /\ pc' = IF ToCapture(st, c) = {} THEN "idle" ELSE "capture"
    /\ cursor' = IF ToCapture(st, c) = {} THEN 0 ELSE c

\* A capture of every registry entry in ids, in key order, each read
\* succeeding where the server has the pixels.
RECURSIVE CaptureAll(_, _)
CaptureAll(st, ids) ==
    IF ids = {} THEN st
    ELSE LET id == CHOOSE i \in ids : \A j \in ids : i <= j
             o == IF "bpp32" \in CaptureOutcomes(st, id) THEN "bpp32" ELSE "noimage"
         IN  CaptureAll(IF st.windows[id].mapped
                        THEN capture_window_contents(st, id, o) ELSE st,
                        ids \ {id})

\* A defect: the for loop sits inside the while loop, so every iteration
\* captures after its handler.
HandleThenCapture ==
    /\ queue # <<>>
    /\ LET st == Dispatch(Cur, Head(queue))
       IN  Becomes([CaptureAll(st, DOMAIN st.windows) EXCEPT !.reqs = <<>>])
    /\ queue' = Tail(queue)
    /\ pc' = "drain"
    /\ UNCHANGED <<display, display_number, xephyr_pid, initialized, cursor>>

\* One iteration of the while loop: XPending > 0, XNextEvent, the switch.
Handle ==
    /\ queue # <<>>
    /\ Becomes(Dispatch(Cur, Head(queue)))
    /\ queue' = Tail(queue)
    /\ pc' = "drain"
    /\ UNCHANGED <<display, display_number, xephyr_pid, initialized, cursor>>

\* The while loop ends, XPending = 0, and the for loop begins.
Drained ==
    /\ queue = <<>>
    /\ LoopOn(Cur, 0)
    /\ UNCHANGED <<prog, srv, queue, xid_next>>

\* X11Compositor::_process is called: the early return, else the first
\* XPending of the drain.
TickStart ==
    /\ pc = "idle"
    /\ initialized /\ display
    /\ Handle \/ Drained
    /\ UNCHANGED <<tick_quota, aside>>

\* _process called before initialize or after cleanup returns at once.
TickIdle ==
    /\ pc = "idle"
    /\ ~(initialized /\ display)
    /\ UNCHANGED vars

\* The drain goes on: the next XPending.
DrainStep ==
    /\ pc = "drain"
    /\ Handle
    /\ UNCHANGED <<tick_quota, aside>>

\* The drain is over: XPending returned 0.
DrainEnd ==
    /\ pc = "drain"
    /\ Drained
    /\ UNCHANGED <<tick_quota, aside>>

(* The same three steps with the drain observed: tick_quota counts the     *)
(* events that were queued when the tick started and are not yet handled.  *)
TickStartCounted ==
    /\ pc = "idle"
    /\ initialized /\ display
    /\ \/ Handle /\ tick_quota' = Len(queue) - 1
       \/ Drained /\ tick_quota' = 0
    /\ UNCHANGED aside

DrainStepCounted ==
    /\ pc = "drain"
    /\ Handle
    /\ tick_quota' = IF tick_quota > 0 THEN tick_quota - 1 ELSE 0
    /\ UNCHANGED aside

DrainEndCounted ==
    /\ pc = "drain"
    /\ Drained
    /\ tick_quota' = 0
    /\ UNCHANGED aside

\* The for loop reaches the next window whose pixels capture_window_contents
\* reads, and the server answers.
CaptureStep ==
    /\ pc = "capture"
    /\ LET todo == ToCapture(Cur, cursor)
           id == CHOOSE i \in todo : \A j \in todo : i <= j
       IN  \E o \in CaptureOutcomes(Cur, id) :
              LET st == capture_window_contents(Cur, id, o)
              IN  Becomes(st) /\ LoopOn(st, id)
    /\ UNCHANGED <<display, display_number, xephyr_pid, initialized, queue,
                   tick_quota, aside>>

(***************************************************************************)
(* The server acting on behalf of its other clients.                       *)
(***************************************************************************)
\* The server sends the events evs to the connection.
Emit(evs) ==
    /\ Len(queue) + Len(evs) <= MaxQueue
    /\ queue' = queue \o evs

Quiet == UNCHANGED <<prog, pc, cursor, xid_next, tick_quota, aside>>

\* A client creates window h (unmapped).
SrvCreate ==
    /\ display
    /\ \E h \in Handles :
          /\ ~srv[h].exists
          /\ srv' = [srv EXCEPT ![h] = [NoWindow EXCEPT !.exists = TRUE]]
          /\ Emit(<<Event("CreateNotify", h, Geom0, None)>>)
    /\ Quiet

\* A client maps window h.
SrvMap ==
    /\ display
    /\ \E h \in Handles :
          /\ srv[h].exists /\ ~srv[h].viewable
          /\ srv' = [srv EXCEPT ![h].viewable = TRUE]
          /\ Emit(Notify(srv, "MapNotify", h))
    /\ Quiet

\* A client unmaps window h.
SrvUnmap ==
    /\ display
    /\ \E h \in Handles :
          /\ srv[h].exists /\ srv[h].viewable
          /\ srv' = [srv EXCEPT ![h].viewable = FALSE]
          /\ Emit(Notify(srv, "UnmapNotify", h))
    /\ Quiet

\* A client moves, resizes or restacks window h.
SrvConfigure ==
    /\ display
    /\ \E h \in Resizable, g \in Geoms :
          /\ srv[h].exists
          /\ srv' = [srv EXCEPT ![h].geom = g]
          /\ Emit(Notify(srv', "ConfigureNotify", h))
    /\ Quiet

\* A client destroys window h (a mapped window is unmapped first: SrvUnmap);
\* the server frees the damage objects of the window with it.
SrvDestroy ==
    /\ display
    /\ \E h \in Handles :
          /\ srv[h].exists /\ ~srv[h].viewable
          /\ srv' = [srv EXCEPT ![h] = NoWindow]
          /\ Emit(Notify(srv, "DestroyNotify", h))
    /\ Quiet

\* A client draws into window h: with XDamageReportNonEmpty the server
\* reports the damage when the region goes from empty to non-empty.
SrvDraw ==
    /\ display
    /\ \E h \in Handles :
          /\ srv[h].exists /\ srv[h].viewable
          /\ srv' = [srv EXCEPT ![h].dirty = (@ \/ srv[h].dmg # None)]
          /\ Emit(IF srv[h].dmg # None /\ ~srv[h].dirty
                  THEN <<Event("DamageNotify", h, Geom0, srv[h].dmg)>>
                  ELSE <<>>)
    /\ Quiet

\* A client changes the keyboard mapping: the server sends MappingNotify to
\* every connection, an event _process has no case for.
SrvMapping ==
    /\ display
    /\ srv' = srv
    /\ Emit(<<Event("MappingNotify", None, Geom0, None)>>)
    /\ Quiet

Next ==
    \/ InitializeAgain
    \/ InitializeFail
    \/ Initialize
    \/ Cleanup
    \/ TickStart
    \/ TickIdle
    \/ DrainStep
    \/ DrainEnd
    \/ CaptureStep
    \/ SrvCreate
    \/ SrvMap
    \/ SrvUnmap
    \/ SrvConfigure
    \/ SrvDestroy
    \/ SrvDraw

Spec == Init /\ [][Next]_vars

\* The compositor with its drain observed, and a server that also sends
\* events of a kind _process has no case for.
NextDrain ==
    \/ InitializeAgain
    \/ InitializeFail
    \/ Initialize
    \/ Cleanup
    \/ TickStartCounted
    \/ TickIdle
    \/ DrainStepCounted
    \/ DrainEndCounted
    \/ CaptureStep
    \/ SrvCreate
    \/ SrvMap
    \/ SrvUnmap
    \/ SrvConfigure
    \/ SrvDestroy
    \/ SrvDraw
    \/ SrvMapping

SpecDrain == Init /\ [][NextDrain]_vars

(***************************************************************************)
(* The Wayland compositor and its clients.  The handlers run inside        *)
(* wl_event_loop_dispatch, which _process calls once initialized.          *)
(***************************************************************************)
x11 == <<display, display_number, xephyr_pid, composite_available,
         damage_available, windows, xwindow_to_id, next_window_id, initialized,
         pc, cursor, srv, queue, xid_next, tick_quota, modifier_state, sent,
         bench, stale>>

WlBecomes(w) ==
    /\ w.next_window_id <= MaxId + 1
    /\ wl' = [w EXCEPT !.ret = FALSE]
    /\ UNCHANGED x11

\* The sizes a client commits: none yet, or one of two.
WlSizes == {<<0, 0>>, <<10, 10>>, <<10, 20>>}

\* The window records whose toplevel is the surface h.
WlWindowsOf(w, h) == {id \in DOMAIN w.windows : w.windows[id].toplevel = h}

\* WaylandCompositor::initialize when already initialized
WlInitializeAgain ==
    /\ wl.initialized
    /\ \E n \in 1 .. WlOk : WlBecomes(WaylandCompositor_initialize(wl, n))

\* WaylandCompositor::initialize, the creation of one object failing
WlInitializeFail ==
    /\ ~wl.initialized
    /\ \E n \in 1 .. (WlOk - 1) : WlBecomes(WaylandCompositor_initialize(wl, n))

\* WaylandCompositor::initialize succeeding
WlInitialize ==
    /\ ~wl.initialized
    /\ WlBecomes(WaylandCompositor_initialize(wl, WlOk))

\* WaylandCompositor::cleanup (from _exit_tree or the destructor); the
\* display destroyed, the clients' surfaces are gone with it.
WlCleanup ==
    \E w \in {WaylandCompositor_cleanup(wl)} :
       WlBecomes([w EXCEPT !.surfaces = IF wl.initialized
                                        THEN [h \in Handles |-> NoSurface]
                                        ELSE @])

\* _process before initialize or after cleanup returns at once.
WlTickIdle ==
    /\ ~wl.initialized
    /\ UNCHANGED vars

\* _process dispatches a client's new xdg surface h, a toplevel or a popup.
WlNewSurface ==
    /\ wl.initialized
    /\ \E h \in Handles, toplevel \in BOOLEAN :
          /\ ~wl.surfaces[h].exists /\ ~wl.surfaces[h].gone
          /\ WlBecomes(WaylandCompositor_handle_new_xdg_surface(
                 [wl EXCEPT !.surfaces[h] =
                     [NoSurface EXCEPT !.exists = TRUE, !.toplevel = toplevel]],
                 h))

\* _process dispatches a commit of the surface h, with or without a buffer
\* attached.
WlCommit ==
    /\ wl.initialized
    /\ \E h \in Handles, buffer \in BOOLEAN, size \in WlSizes :
          /\ wl.surfaces[h].exists
          /\ LET w == [wl EXCEPT !.surfaces[h].buffer = buffer,
                                 !.surfaces[h].width = size[1],
                                 !.surfaces[h].height = size[2]]
                 ids == WlWindowsOf(w, h)
             IN  WlBecomes(IF ids = {} THEN w
                           ELSE WaylandCompositor_handle_xdg_surface_commit(
                                    w, CHOOSE id \in ids : TRUE, size[1], size[2]))

\* _process dispatches the destruction of the surface h.
WlDestroy ==
    /\ wl.initialized
    /\ \E h \in Handles :
          /\ wl.surfaces[h].exists
          /\ LET w == [wl EXCEPT !.surfaces[h] = [NoSurface EXCEPT !.gone = TRUE]]
                 ids == WlWindowsOf(w, h)
             IN  WlBecomes(IF ids = {} THEN w
                           ELSE WaylandCompositor_handle_xdg_toplevel_destroy(
                                    w, CHOOSE id \in ids : TRUE))

NextWayland ==
    \/ WlInitializeAgain
    \/ WlInitializeFail
    \/ WlInitialize
    \/ WlCleanup
    \/ WlTickIdle
    \/ WlNewSurface
    \/ WlCommit
    \/ WlDestroy

SpecWayland == Init /\ [][NextWayland]_vars

(* The host runs one of the two compositors.  They are two objects that    *)
(* share no state, so a behaviour in which both run is an interleaving of  *)
(* one behaviour of each and shows nothing more: here the one that acted   *)
(* first is the one that runs.                                             *)
X11Runs == wl = NewWayland

WaylandRuns == display_number = 0 /\ ~initialized

NextEither ==
    \/ X11Runs /\ InitializeAgain
    \/ X11Runs /\ InitializeFail
    \/ X11Runs /\ Initialize
    \/ X11Runs /\ Cleanup
    \/ X11Runs /\ TickStart
    \/ X11Runs /\ TickIdle
    \/ X11Runs /\ DrainStep
    \/ X11Runs /\ DrainEnd
    \/ X11Runs /\ CaptureStep
    \/ X11Runs /\ SrvCreate
    \/ X11Runs /\ SrvMap
    \/ X11Runs /\ SrvUnmap
    \/ X11Runs /\ SrvConfigure
    \/ X11Runs /\ SrvDestroy
    \/ X11Runs /\ SrvDraw
    \/ WaylandRuns /\ WlInitializeAgain
    \/ WaylandRuns /\ WlInitializeFail
    \/ WaylandRuns /\ WlInitialize
    \/ WaylandRuns /\ WlCleanup
    \/ WaylandRuns /\ WlTickIdle
    \/ WaylandRuns /\ WlNewSurface
    \/ WaylandRuns /\ WlCommit
    \/ WaylandRuns /\ WlDestroy

SpecEither == Init /\ [][NextEither]_vars

(***************************************************************************)
(* The accessors, on the state st they are called in.                      *)
(***************************************************************************)
\* Ref<Image>(): the null image.
NullImage == [null |-> TRUE, width |-> 0, height |-> 0, data |-> NoImage]

\* X11Compositor::get_window_ids
get_window_ids(st) == DOMAIN st.windows

\* A defect: get_display_name without the test of initialized.
get_display_name_unguarded(st) ==
    IF st.display_number = 0 THEN <<>> ELSE <<":", st.display_number>>

\* X11Compositor::get_display_name: the string as the sequence of its
\* parts, <<>> for the empty string and ":" followed by the number
\* otherwise.
get_display_name(st) ==
    IF ~st.initialized \/ st.display_number = 0 THEN <<>>
    ELSE <<":", st.display_number>>

\* X11Compositor::is_initialized
is_initialized(st) == st.initialized

\* A defect: get_window_buffer hands out the buffer whether valid or not.
get_window_buffer_ignoring_flag(st, window_id) ==
    IF window_id \notin DOMAIN st.windows THEN NullImage
    ELSE LET window == st.windows[window_id]
         IN  IF window.image_data = NoImage THEN NullImage
             ELSE [null |-> FALSE, width |-> window.width,
                   height |-> window.height, data |-> window.image_data]

\* X11Compositor::get_window_buffer (the image by its size and data length)
get_window_buffer(st, window_id) ==
    IF window_id \notin DOMAIN st.windows THEN NullImage
    ELSE LET window == st.windows[window_id]
         IN  IF ~window.has_image \/ window.image_data = NoImage THEN NullImage
             ELSE IF window.width <= 0 \/ window.height <= 0 THEN NullImage
             ELSE [null |-> FALSE, width |-> window.width,
                   height |-> window.height, data |-> window.image_data]

\* X11Compositor::get_window_size
get_window_size(st, window_id) ==
    IF window_id \notin DOMAIN st.windows THEN <<0, 0>>
    ELSE <<st.windows[window_id].width, st.windows[window_id].height>>

\* X11Compositor::get_window_class
get_window_class(st, window_id) ==
    IF window_id \notin DOMAIN st.windows THEN ""
    ELSE st.windows[window_id].wm_class

\* X11Compositor::get_window_title
get_window_title(st, window_id) ==
    IF window_id \notin DOMAIN st.windows THEN ""
    ELSE st.windows[window_id].wm_name

\* X11Compositor::get_window_pid
get_window_pid(st, window_id) ==
    IF window_id \notin DOMAIN st.windows THEN -1
    ELSE st.windows[window_id].pid

\* X11Compositor::get_parent_window_id
get_parent_window_id(st, window_id) ==
    IF window_id \notin DOMAIN st.windows THEN -1
    ELSE st.windows[window_id].parent_window_id

\* Values an int that was never written may hold.
Indeterminate == {<<x, y>> : x, y \in {-1, 0, 100}}

\* X11Compositor::get_window_position: the set of values it may return.  It
\* returns what XTranslateCoordinates wrote, the window's origin in root
\* coordinates; when the request fails (the window is gone) nothing was
\* written and the two ints returned are indeterminate.
get_window_position(st, window_id) ==
    IF window_id \notin DOMAIN st.windows THEN {<<0, 0>>}
    ELSE LET w == st.srv[st.windows[window_id].xwindow]
         IN  IF w.exists THEN {<<w.geom.x, w.geom.y>>} ELSE Indeterminate

(***************************************************************************)
(* The input injector.  An operation takes, besides its arguments, what    *)
(* the connection answers during the call, and returns the state with the  *)
(* requests it sent.                                                       *)
(***************************************************************************)
\* An XEvent as send_mouse_button, send_mouse_motion and send_key_event fill
\* it: detail is the button or the key code.
XEvent(type, xwindow, x, y, x_root, y_root, state, detail) ==
    [type |-> type, window |-> xwindow, x |-> x, y |-> y,
     x_root |-> x_root, y_root |-> y_root, state |-> state, detail |-> detail]

\* What XTranslateCoordinates(xwindow, root, 0, 0) may leave in win_x_root
\* and win_y_root: the origin of the window in root coordinates, or, the
\* window being gone and the request failing, whatever the two ints held.
Origins(st, xwindow) ==
    IF st.srv[xwindow].exists
    THEN {<<st.srv[xwindow].geom.x, st.srv[xwindow].geom.y>>}
    ELSE Indeterminate

\* A defect: the absolute coordinates are taken from the cached position.
send_mouse_button_cached(st, window_id, button, pressed, x, y, origin) ==
    IF window_id \notin DOMAIN st.windows \/ ~st.display THEN st
    ELSE LET window == st.windows[window_id]
         IN  [st EXCEPT !.reqs = @ \o
                <<Req("XSendEvent",
                      XEvent(IF pressed THEN "ButtonPress" ELSE "ButtonRelease",
                             window.xwindow, x, y, window.x + x, window.y + y,
                             0, button)),
                  Req("XFlush", 0)>>]

\* X11Compositor::send_mouse_button, origin being what XTranslateCoordinates
\* left in win_x_root and win_y_root.
send_mouse_button(st, window_id, button, pressed, x, y, origin) ==
    IF window_id \notin DOMAIN st.windows \/ ~st.display THEN st
    ELSE LET window == st.windows[window_id]
         IN  [st EXCEPT !.reqs = @ \o
                <<Req("XSendEvent",
                      XEvent(IF pressed THEN "ButtonPress" ELSE "ButtonRelease",
                             window.xwindow, x, y, origin[1] + x, origin[2] + y,
                             0, button)),
                  Req("XFlush", 0)>>]

\* X11Compositor::send_mouse_motion
send_mouse_motion(st, window_id, x, y, origin) ==
    IF window_id \notin DOMAIN st.windows \/ ~st.display THEN st
    ELSE LET window == st.windows[window_id]
         IN  [st EXCEPT !.reqs = @ \o
                <<Req("XSendEvent",
                      XEvent("MotionNotify", window.xwindow, x, y,
                             origin[1] + x, origin[2] + y, 0, 0)),
                  Req("XFlush", 0)>>]

\* The events among the requests reqs that the server st.srv delivers: an
\* XSendEvent to a window that is gone fails with BadWindow.
Delivered(st, reqs) ==
    SelectSeq(reqs, LAMBDA r : r.op = "XSendEvent" /\ st.srv[r.arg.window].exists)

\* Godot key codes of the modifier keys and of Enter.
KEY_ENTER == 4194309
KEY_SHIFT == 4194325
KEY_CTRL == 4194326
KEY_META == 4194327
KEY_ALT == 4194328

\* X11 key symbols (keysymdef.h) and modifier masks (X.h).
XK_Return == 65293
XK_Shift_L == 65505
XK_Control_L == 65507
XK_Meta_L == 65511
XK_Alt_L == 65513
ShiftMask == 1
ControlMask == 4
Mod1Mask == 8

\* The switch of send_key_event from Godot key code to key symbol, on the
\* codes used here; any other code is taken as the key symbol itself.
Keysym(godot_keycode) ==
    CASE godot_keycode = KEY_ENTER -> XK_Return
      [] godot_keycode = KEY_SHIFT -> XK_Shift_L
      [] godot_keycode = KEY_CTRL -> XK_Control_L
      [] godot_keycode = KEY_ALT -> XK_Alt_L
      [] godot_keycode = KEY_META -> XK_Meta_L
      [] OTHER -> godot_keycode

\* What XKeysymToKeycode may answer for keysym: 0 when the keyboard mapping
\* of the server has no key for it, else the key (the mapping can be
\* changed by any client, so each symbol may or may not have one).
Keycodes(keysym) == {0, 8 + (keysym % 248)}

\* modifier_state |= mask and modifier_state &= ~mask, mask a single bit.
SetMask(state, mask) == IF (state \div mask) % 2 = 1 THEN state ELSE state + mask

ClearMask(state, mask) == IF (state \div mask) % 2 = 1 THEN state - mask ELSE state

HasMask(state, mask) == (state \div mask) % 2 = 1

\* A defect: the meta key drives no bit of the latch.
Latch_alt_only(state, godot_keycode, pressed) ==
    LET mask == CASE godot_keycode = KEY_SHIFT -> ShiftMask
                  [] godot_keycode = KEY_CTRL -> ControlMask
                  [] godot_keycode = KEY_ALT -> Mod1Mask
                  [] OTHER -> 0
    IN  IF mask = 0 THEN state
        ELSE IF pressed THEN SetMask(state, mask) ELSE ClearMask(state, mask)

\* The update of modifier_state in send_key_event.
Latch(state, godot_keycode, pressed) ==
    LET mask == CASE godot_keycode = KEY_SHIFT -> ShiftMask
                  [] godot_keycode = KEY_CTRL -> ControlMask
                  [] godot_keycode \in {KEY_ALT, KEY_META} -> Mod1Mask
                  [] OTHER -> 0
    IN  IF mask = 0 THEN state
        ELSE IF pressed THEN SetMask(state, mask) ELSE ClearMask(state, mask)

\* A defect: the latch is updated before the key code is looked up.
send_key_event_latching_first(st, window_id, godot_keycode, pressed, x11_keycode) ==
    IF window_id \notin DOMAIN st.windows \/ ~st.display THEN st
    ELSE LET window == st.windows[window_id]
             state == Latch(st.modifier_state, godot_keycode, pressed)
         IN  IF x11_keycode = 0 THEN [st EXCEPT !.modifier_state = state]
             ELSE [st EXCEPT
                     !.modifier_state = state,
                     !.reqs = @ \o
                        <<Req("XSendEvent",
                              XEvent(IF pressed THEN "KeyPress" ELSE "KeyRelease",
                                     window.xwindow, 0, 0, 0, 0, state, x11_keycode)),
                          Req("XFlush", 0)>>]

\* A defect: the event is stamped with the latch as it was before the call.
send_key_event_stamping_old(st, window_id, godot_keycode, pressed, x11_keycode) ==
    IF window_id \notin DOMAIN st.windows \/ ~st.display THEN st
    ELSE IF x11_keycode = 0 THEN st
    ELSE LET window == st.windows[window_id]
             state == Latch(st.modifier_state, godot_keycode, pressed)
         IN  [st EXCEPT
                !.modifier_state = state,
                !.reqs = @ \o
                   <<Req("XSendEvent",
                         XEvent(IF pressed THEN "KeyPress" ELSE "KeyRelease",
                                window.xwindow, 0, 0, 0, 0, st.modifier_state,
                                x11_keycode)),
                     Req("XFlush", 0)>>]

\* X11Compositor::send_key_event, x11_keycode being what XKeysymToKeycode
\* answered for the key symbol of godot_keycode.
send_key_event(st, window_id, godot_keycode, pressed, x11_keycode) ==
    IF window_id \notin DOMAIN st.windows \/ ~st.display THEN st
    ELSE IF x11_keycode = 0 THEN st
    ELSE LET window == st.windows[window_id]
             state == Latch(st.modifier_state, godot_keycode, pressed)
         IN  [st EXCEPT
                !.modifier_state = state,
                !.reqs = @ \o
                   <<Req("XSendEvent",
                         XEvent(IF pressed THEN "KeyPress" ELSE "KeyRelease",
                                window.xwindow, 0, 0, 0, 0, state, x11_keycode)),
                     Req("XFlush", 0)>>]

\* Every id a caller may pass: the ids issued so far, and one never issued.
AnyIds == 0 .. (MaxId + 2)

\* The key codes the host sends in the behaviours explored: the modifiers
\* and a letter.
InputKeys == {KEY_SHIFT, KEY_CTRL, KEY_ALT, KEY_META, 97}

\* The events among the requests of st, each with whether the server
\* delivers it.
Wire(st) ==
    LET events == SelectSeq(st.reqs, LAMBDA r : r.op = "XSendEvent")
    IN  [i \in DOMAIN events |->
            [event |-> events[i].arg,
             delivered |-> st.srv[events[i].arg.window].exists]]

\* The host calls an operation of the injector between two ticks: the
\* latch and the connection take what the call returned.
Injects(st) ==
    /\ modifier_state' = st.modifier_state
    /\ sent' = Wire(st)
    /\ UNCHANGED <<prog, pc, cursor, srv, queue, xid_next, tick_quota, wl, bench,
                   stale>>

\* The ids the host passes in the behaviours explored: those tracked, and
\* one that is not.
CalledIds == DOMAIN windows \cup {0}

\* What XTranslateCoordinates leaves for the record id, if there is one.
OriginsOf(id) ==
    IF id \in DOMAIN windows THEN Origins(Cur, windows[id].xwindow) ELSE {<<0, 0>>}

\* X11Compositor::send_mouse_button is called.
SendMouseButton ==
    /\ pc = "idle"
    /\ \E id \in CalledIds, pressed \in BOOLEAN :
          \E origin \in OriginsOf(id) :
             Injects(send_mouse_button(Cur, id, 1, pressed, 10, 10, origin))

\* X11Compositor::send_mouse_motion is called.
SendMouseMotion ==
    /\ pc = "idle"
    /\ \E id \in CalledIds :
          \E origin \in OriginsOf(id) :
             Injects(send_mouse_motion(Cur, id, 10, 10, origin))

\* X11Compositor::send_key_event is called.
SendKey ==
    /\ pc = "idle"
    /\ \E id \in CalledIds, godot_keycode \in InputKeys, pressed \in BOOLEAN :
          \E x11_keycode \in Keycodes(Keysym(godot_keycode)) :
             Injects(send_key_event(Cur, id, godot_keycode, pressed, x11_keycode))

\* The compositor with its input injector, on a server without the two
\* extensions (they play no part in input injection) whose clients create
\* and destroy windows.
NextInput ==
    \/ Initialize /\ ~composite_available' /\ ~damage_available'
    \/ Cleanup
    \/ TickStart
    \/ TickIdle
    \/ DrainStep
    \/ DrainEnd
    \/ SrvCreate
    \/ SrvDestroy
    \/ SendMouseButton
    \/ SendMouseMotion
    \/ SendKey

SpecInput == Init /\ [][NextInput]_vars

(***************************************************************************)
(* The functions of their arguments alone, each called once on arguments   *)
(* drawn from a set of synthetic inputs.                                   *)
(***************************************************************************)
\* A call under way: the function, its arguments, and its result once done.
Bench(kind, args) == [kind |-> kind, done |-> FALSE, args |-> args, result |-> <<>>]

\* The call returns result.
Returns(result) ==
    /\ ~bench.done
    /\ bench' = [bench EXCEPT !.done = TRUE, !.result = result]
    /\ UNCHANGED <<prog, pc, cursor, srv, queue, xid_next, tick_quota,
                   modifier_state, sent, wl, stale>>

\* Synthetic surfaces: what XGetWindowAttributes and the WM_STATE query
\* may answer for a handle.
SyntheticAttributes ==
    [ok : BOOLEAN, input_only : BOOLEAN,
     width : {0, 9, 10, 50}, height : {0, 9, 10, 20}, x : {0}, y : {0},
     wm_state : BOOLEAN, viewable : BOOLEAN]

\* Synthetic source images: one or two pixels each way, rows with or
\* without four bytes of padding, every byte of the buffer different from
\* the others (the bytes count up from base, through 255 to 0 when base is
\* 250).
SourceBytes(height, stride, base) ==
    [i \in 0 .. (height * stride - 1) |-> (base + i) % 256]

SyntheticImages(bits, orders) ==
    {SourceImage(width, height, 4 * width + padding, bits_per_pixel, byte_order,
                 red_shift, alpha, SourceBytes(height, 4 * width + padding, base)) :
        width \in {1, 2}, height \in {1, 2}, padding \in {0, 4},
        bits_per_pixel \in bits, byte_order \in orders,
        red_shift \in {16, 0}, alpha \in BOOLEAN, base \in {0, 250}}

BenchInputs ==
    {Bench("should_track_window", a) : a \in SyntheticAttributes}
    \cup {Bench("capture_window_contents", image) :
             image \in SyntheticImages({32}, {"LSBFirst", "MSBFirst"})
                          \cup SyntheticImages({24}, {"LSBFirst"})}
    \cup {Bench("get_window_buffer", image) :
             image \in SyntheticImages({32}, {"LSBFirst"})}

\* X11Compositor::should_track_window is called.
CallShouldTrackWindow ==
    /\ bench.kind = "should_track_window"
    /\ Returns(should_track(bench.args))

\* X11Compositor::capture_window_contents converts the image it read.
CallCaptureWindowContents ==
    /\ bench.kind = "capture_window_contents"
    /\ Returns(ConvertXImage(bench.args))

\* WaylandCompositor::get_window_buffer converts the buffer it opened.
CallGetWindowBuffer ==
    /\ bench.kind = "get_window_buffer"
    /\ Returns(WaylandCompositor_ConvertBuffer(bench.args))

InitPure == Constructed /\ bench \in BenchInputs

NextPure ==
    \/ CallShouldTrackWindow
    \/ CallCaptureWindowContents
    \/ CallGetWindowBuffer

SpecPure == InitPure /\ [][NextPure]_vars

(***************************************************************************)
(* The compositor on a server with both extensions, the content of the     *)
(* surfaces observed: stale[h] says that a client drew into the tracked    *)
(* window h after its pixels were last read by a capture.  The windows are *)
(* those the server has when the session begins.                           *)
(***************************************************************************)
\* What the observed steps leave alone.
unseen == <<modifier_state, sent, wl, bench>>

\* SrvDraw, observed.
SrvDrawSeen ==
    /\ display
    /\ \E h \in Handles :
          /\ srv[h].exists /\ srv[h].viewable
          /\ srv' = [srv EXCEPT ![h].dirty = (@ \/ srv[h].dmg # None)]
          /\ Emit(IF srv[h].dmg # None /\ ~srv[h].dirty
                  THEN <<Event("DamageNotify", h, Geom0, srv[h].dmg)>>
                  ELSE <<>>)
          /\ stale' = [stale EXCEPT ![h] = (@ \/ srv[h].dmg # None)]
    /\ UNCHANGED <<prog, pc, cursor, xid_next, tick_quota, unseen>>

\* SrvDestroy, observed: the surface is gone, and its content with it.
SrvDestroySeen ==
    /\ display
    /\ \E h \in Handles :
          /\ srv[h].exists /\ ~srv[h].viewable
          /\ srv' = [srv EXCEPT ![h] = NoWindow]
          /\ Emit(Notify(srv, "DestroyNotify", h))
          /\ stale' = [stale EXCEPT ![h] = FALSE]
    /\ UNCHANGED <<prog, pc, cursor, xid_next, tick_quota, unseen>>

\* CaptureStep, observed: a read that returns pixels has the content of
\* the surface as it is now.
CaptureStepSeen ==
    /\ pc = "capture"
    /\ LET todo == ToCapture(Cur, cursor)
           id == CHOOSE i \in todo : \A j \in todo : i <= j
       IN  \E o \in CaptureOutcomes(Cur, id) :
              LET st == capture_window_contents(Cur, id, o)
              IN  /\ Becomes(st)
                  /\ LoopOn(st, id)
                  /\ stale' = IF o \in {"bpp32", "bppOther"}
                              THEN [stale EXCEPT ![windows[id].xwindow] = FALSE]
                              ELSE stale
    /\ UNCHANGED <<display, display_number, xephyr_pid, initialized, queue,
                   tick_quota, unseen>>

NextCache ==
    \/ Initialize /\ composite_available' /\ damage_available'
    \/ TickStart
    \/ DrainStep
    \/ DrainEnd
    \/ CaptureStepSeen
    \/ SrvMap
    \/ SrvUnmap
    \/ SrvDestroySeen
    \/ SrvDrawSeen

SpecCache == Init /\ [][NextCache]_vars

\* The same with ticks that keep running: the host calls _process again
\* and again, and a call that has begun goes on to its next statement.
SpecCacheFair ==
    /\ SpecCache
    /\ WF_vars(TickStart)
    /\ WF_vars(DrainStep)
    /\ WF_vars(DrainEnd)
    /\ WF_vars(CaptureStepSeen)

(***************************************************************************)
(* Properties of the registry.                                             *)
(***************************************************************************)
Tracked == DOMAIN xwindow_to_id

\* C1: the ids add_window assigns are strictly increasing in the order of
\* assignment and no id is assigned twice, over events, initial scans,
\* cleanup and initialize: next_window_id never decreases (it is never
\* reset), every id in use is below it, and the ids a step assigns are
\* exactly the values the counter passes over in that step.
C1_IdsIncrease ==
    [][LET new == DOMAIN windows' \ DOMAIN windows
       IN  /\ next_window_id' >= next_window_id
           /\ new = next_window_id .. (next_window_id' - 1)
           /\ \A id \in DOMAIN windows' : 1 <= id /\ id < next_window_id']_vars

\* C1 witness: the connection has created one damage object, so this
\* session tracked one window, and the window has id 2: the counter went on
\* from where the session before the cleanup left it.
C1_Witness ==
    /\ initialized
    /\ damage_available
    /\ xid_next = 2
    /\ next_window_id = 3
    /\ DOMAIN windows = {2}

\* C2: while a handle stays tracked the id mapped to it does not change,
\* and a handle that becomes tracked (again) receives an id that no
\* earlier assignment used: one not below the counter, which moves past it.
C2_IdStable ==
    [][\A h \in DOMAIN xwindow_to_id' :
          IF h \in DOMAIN xwindow_to_id
          THEN xwindow_to_id'[h] = xwindow_to_id[h]
          ELSE /\ xwindow_to_id'[h] >= next_window_id
               /\ xwindow_to_id'[h] < next_window_id']_vars

\* C2 witness: this session tracked two windows (its connection created two
\* damage objects); the first was removed by a destroy event, and handle 2
\* is tracked under the later id.
C2_Witness ==
    /\ initialized
    /\ damage_available
    /\ xid_next = 3
    /\ xwindow_to_id = MapPut(EmptyMap, 2, 2)
    /\ ~srv[1].exists
    /\ pc = "drain"

\* C3: the registry and the reverse lookup describe the same bijection.
C3_Bijection ==
    /\ \A id \in DOMAIN windows :
          /\ windows[id].id = id
          /\ windows[id].xwindow \in DOMAIN xwindow_to_id
          /\ xwindow_to_id[windows[id].xwindow] = id
    /\ \A h \in DOMAIN xwindow_to_id :
          /\ xwindow_to_id[h] \in DOMAIN windows
          /\ windows[xwindow_to_id[h]].xwindow = h
    /\ \A i, j \in DOMAIN windows :
          windows[i].xwindow = windows[j].xwindow => i = j

\* C3 witness: two windows are tracked, one added by an event.
C3_Witness ==
    /\ Cardinality(DOMAIN windows) = 2
    /\ Cardinality(DOMAIN xwindow_to_id) = 2
    /\ pc = "drain"

(***************************************************************************)
(* Properties of the handlers and of the capture, in every state the       *)
(* compositor reaches while it is connected.                               *)
(***************************************************************************)
\* _process is about to dispatch the event at the head of the queue.
Dispatching ==
    /\ initialized /\ display
    /\ pc \in {"idle", "drain"}
    /\ queue # <<>>

\* The damage XIDs an event can carry.
DamageIds == 1 .. (MaxId + 1)

\* C4: after a destroy event is dispatched for a tracked window that has a
\* damage handle, get_window_ids does not contain its id, the reverse lookup
\* has no entry for its handle, and every accessor called with the id
\* returns the absent value.
C4_DestroyRemoves ==
    initialized /\ display =>
    \A h \in Tracked :
       LET id == xwindow_to_id[h]
           st == Dispatch(Cur, Event("DestroyNotify", h, Geom0, None))
       IN  windows[id].damage # None =>
             /\ id \notin get_window_ids(st)
             /\ h \notin DOMAIN st.xwindow_to_id
             /\ get_window_buffer(st, id) = NullImage
             /\ get_window_size(st, id) = <<0, 0>>
             /\ get_window_position(st, id) = {<<0, 0>>}
             /\ get_window_class(st, id) = ""
             /\ get_window_title(st, id) = ""
             /\ get_window_pid(st, id) = -1
             /\ get_parent_window_id(st, id) = -1

\* C4 witness: the one window this session tracked had a damage handle and
\* a destroy event has removed it during the current drain.
C4_Witness ==
    /\ initialized /\ damage_available
    /\ pc = "drain"
    /\ xid_next = 2
    /\ get_window_ids(Cur) = {}
    /\ xwindow_to_id = EmptyMap
    /\ get_window_pid(Cur, next_window_id - 1) = -1

\* The state predicate of C5, stated of one state.
ConfigureApplied ==
    initialized /\ display =>
    \A h \in Tracked, g \in Geoms :
       LET id == xwindow_to_id[h]
           st == Dispatch(Cur, Event("ConfigureNotify", h, g, None))
       IN  /\ IF windows[id].width # g.width \/ windows[id].height # g.height
              THEN ~st.windows[id].has_image
              ELSE st.windows[id].has_image = windows[id].has_image
           /\ st.windows[id].x = g.x
           /\ st.windows[id].y = g.y

\* C5: dispatching a configure event for a tracked window sets has_image to
\* false when the width or the height of the event differs from the cached
\* one, whatever has_image was, and leaves has_image as it was when both are
\* equal; the cached position is updated in both cases.
C5_Configure == []ConfigureApplied

\* C5 witness: the drain is dispatching a configure event that changes the
\* width of a tracked window whose image is valid.
C5_Witness ==
    /\ Dispatching
    /\ Head(queue).type = "ConfigureNotify"
    /\ Head(queue).window \in Tracked
    /\ LET w == windows[xwindow_to_id[Head(queue).window]]
       IN  /\ w.has_image
           /\ w.width # Head(queue).geom.width

\* The state predicate of C6, stated of one state.
DamageApplied ==
    initialized /\ display /\ damage_available =>
    \A d \in DamageIds :
       LET st == Dispatch(Cur, Event("DamageNotify", None, Geom0, d))
           owners == {id \in DOMAIN windows : windows[id].damage = d}
       IN  /\ DOMAIN st.windows = DOMAIN windows
           /\ st.xwindow_to_id = xwindow_to_id
           /\ \A id \in owners : ~st.windows[id].has_image
           /\ \A id \in DOMAIN windows \ owners : st.windows[id] = windows[id]
           /\ owners = {} => st = Cur

\* C6: with damage tracking available, dispatching a damage event whose
\* damage handle belongs to tracked window W sets W.has_image to false and
\* leaves every other tracked window as it was; a damage event whose handle
\* matches no tracked window changes nothing.
C6_Damage == []DamageApplied

\* C6 witness: two windows hold a valid image and the drain is dispatching a
\* damage event for one of them.
C6_Witness ==
    /\ Dispatching /\ damage_available
    /\ Head(queue).type = "DamageNotify"
    /\ Cardinality(DOMAIN windows) = 2
    /\ \A id \in DOMAIN windows : windows[id].has_image
    /\ \E id \in DOMAIN windows : windows[id].damage = Head(queue).damage

\* The condition under which capture_window_contents may read pixels.
MayCapture(id) ==
    /\ composite_available
    /\ windows[id].mapped
    /\ windows[id].width > 0 /\ windows[id].height > 0
    /\ ~windows[id].has_image \/ ~damage_available

\* C7: capture_window_contents(W) sends no request to the server and leaves
\* W.has_image and W.image_data as they were unless compositing is
\* available, W is mapped, its width and height are positive, and has_image
\* is false or damage tracking is unavailable.
C7_CaptureGuard ==
    initialized /\ display =>
    \A id \in DOMAIN windows :
       \A o \in {"nopixmap", "noimage", "bpp32", "bppOther"} :
          ~MayCapture(id) => capture_window_contents(Cur, id, o) = Cur

\* C7 witness: the capture pass of a tick has gone past a mapped window
\* with a valid image, under damage tracking, and reads another window.
C7_Witness ==
    /\ pc = "capture"
    /\ composite_available /\ damage_available
    /\ \E id \in DOMAIN windows :
          /\ id < CHOOSE i \in ToCapture(Cur, cursor) :
                      \A j \in ToCapture(Cur, cursor) : i <= j
          /\ id > cursor
          /\ windows[id].mapped
          /\ windows[id].has_image

\* The state predicate of C8, stated of one state.
ImageSizeHolds ==
    \A id \in DOMAIN windows :
       windows[id].has_image =>
          windows[id].image_data = windows[id].width * windows[id].height * 4

\* C8: for every tracked window, has_image implies that the length of
\* image_data is width * height * 4 for the cached width and height.
C8_ImageSize == []ImageSizeHolds

\* C8 witness: a window was resized after a capture and captured again.
C8_Witness ==
    \E id \in DOMAIN windows :
       /\ windows[id].has_image
       /\ windows[id].height = 20
       /\ windows[id].image_data = 800

(***************************************************************************)
(* Properties of one tick.                                                 *)
(***************************************************************************)
\* The step dequeues an event and runs its handler.
Dequeues == pc' = "drain" /\ Len(queue') < Len(queue)

\* C9: within one tick no capture runs before the drain is over, and no
\* handler runs once the capture pass has begun: a step that dequeues an
\* event changes no image, and from the first capture to the end of the
\* tick no event is dequeued, the drain is not entered again, and no window
\* is added, removed, mapped, unmapped, resized or invalidated, so every
\* capture sees the registry as the last handler of the drain left it.
C9_DrainBeforeCapture ==
    [][/\ Dequeues =>
            \A id \in DOMAIN windows \cap DOMAIN windows' :
               /\ windows'[id].image_data = windows[id].image_data
               /\ windows'[id].has_image => windows[id].has_image
       /\ pc = "capture" =>
            /\ pc' # "drain"
            /\ Len(queue') >= Len(queue)
            /\ DOMAIN windows' = DOMAIN windows
            /\ xwindow_to_id' = xwindow_to_id
            /\ \A id \in DOMAIN windows :
                  /\ windows'[id].mapped = windows[id].mapped
                  /\ windows'[id].width = windows[id].width
                  /\ windows'[id].height = windows[id].height
                  /\ windows[id].has_image => windows'[id].has_image]_vars

\* C9 witness: the capture pass has captured one window and is at the next
\* one, while an event that arrived after the drain waits in the queue.
C9_Witness ==
    /\ pc = "capture"
    /\ cursor > 0
    /\ windows[cursor].has_image
    /\ queue # <<>>

\* C10, as the specification states it: the drain of one tick handles only
\* the events that were queued when the tick started, so an iteration of the
\* drain that dequeues an event still has such an event left.
C10_DrainBoundedAtTickStart ==
    [][pc = "drain" /\ Dequeues => tick_quota > 0]_vars

\* C10, as the code behaves: the drain handles the events queued at tick
\* start first (none is skipped), goes on with the events that arrive
\* while it runs, and ends only when it finds the queue empty.
C10_DrainUntilEmpty ==
    /\ [](pc = "drain" => tick_quota <= Len(queue))
    /\ [][(Dequeues => queue' = Tail(queue))
           /\ (pc = "drain" /\ pc' # "drain" => queue = <<>>)
           /\ (pc = "idle" /\ pc' = "capture" => queue = <<>>)]_vars

\* C10 witness: the drain has handled every event queued at tick start and
\* is about to dequeue one that arrived after it.
C10_Witness ==
    /\ pc = "drain"
    /\ tick_quota = 0
    /\ queue # <<>>

(***************************************************************************)
(* C11: whenever initialize returns false the system is fully torn down:   *)
(* no subprocess launched by the call is owned (xephyr_pid is 0), no       *)
(* connection is held, the registry is empty and is_initialized is false,  *)
(* at every failure point, the failure to open the connection after the    *)
(* subprocess has started included.                                        *)
(***************************************************************************)
TornDown(st) ==
    /\ st.xephyr_pid = 0
    /\ ~st.display
    /\ st.windows = EmptyMap
    /\ st.xwindow_to_id = EmptyMap
    /\ ~st.initialized

\* C11 as claimed: every failing initialize leaves the system torn down.
C11_FailedInitializeTornDown ==
    pc = "idle" =>
       \A o \in InitAnswers :
          LET r == initialize(Cur, o) IN ~r.ret => TornDown(r)

\* C11, what the code does keep: a failing initialize leaves the registry
\* empty, no connection held and is_initialized false, and it owns a
\* subprocess only when the connection to a started server did not open.
C11_FailedInitializeButSubprocess ==
    pc = "idle" =>
       \A o \in InitAnswers :
          LET r == initialize(Cur, o)
          IN  ~r.ret => /\ TornDown([r EXCEPT !.xephyr_pid = 0])
                        /\ o.how # "no_connection" /\ xephyr_pid = 0
                               => r.xephyr_pid = 0

\* C11: an initialize has failed and its server subprocess is still owned.
C11_Witness ==
    /\ ~initialized
    /\ ~display
    /\ xephyr_pid > 0
    /\ display_number = 1

(***************************************************************************)
(* C12: initialize is idempotent when already initialized: on either       *)
(* compositor a call made while is_initialized is true returns true and    *)
(* changes nothing: it launches no subprocess, opens no connection, does   *)
(* not probe again and leaves the registry as it is, whatever the          *)
(* environment would have answered.                                        *)
(***************************************************************************)
C12_InitializeIdempotent ==
    /\ pc = "idle" /\ initialized =>
          \A o \in InitAnswers :
             initialize(Cur, o) = [Cur EXCEPT !.ret = TRUE]
    /\ wl.initialized =>
          \A n \in 1 .. WlOk :
             WaylandCompositor_initialize(wl, n) = [wl EXCEPT !.ret = TRUE]

\* C12: initialize can be called on an initialized compositor that owns its
\* subprocess and tracks a window.
C12_Witness ==
    /\ pc = "idle"
    /\ initialized
    /\ xephyr_pid > 0
    /\ DOMAIN windows # {}

(***************************************************************************)
(* C13: cleanup is idempotent and safe in every state (never initialized,  *)
(* initialized, already cleaned up): after it is_initialized is false, the *)
(* registry and the reverse lookup are empty, the connection is closed and *)
(* no subprocess is owned, and a second cleanup right after changes        *)
(* nothing.                                                                *)
(***************************************************************************)
\* C13 as claimed, in every state cleanup can be called in.
C13_CleanupTearsDown ==
    pc = "idle" =>
       LET r == cleanup(Cur) IN TornDown(r) /\ cleanup(r) = r

\* C13, what the code does keep: a second cleanup changes nothing, and
\* cleanup tears down every state but the one a failed initialize left with
\* its subprocess.
C13_CleanupIdempotent ==
    pc = "idle" =>
       LET r == cleanup(Cur)
       IN  /\ cleanup(r) = r
           /\ initialized \/ xephyr_pid = 0 => TornDown(r)

\* C13: cleanup is called in the state a failed initialize left, and the
\* subprocess is still owned after it.
C13_Witness ==
    /\ pc = "idle"
    /\ ~initialized
    /\ cleanup(Cur).xephyr_pid > 0

(***************************************************************************)
(* C14: no registry state survives a session.  After cleanup followed by a *)
(* successful initialize the registry and the reverse lookup hold exactly  *)
(* the windows the new session's scan added, no record, cached buffer or   *)
(* damage handle of the session before is reachable, and the capability    *)
(* flags are those probed on the new connection.                           *)
(***************************************************************************)
\* The windows of the fresh server pre that pass the tracking filter.
Scanned(pre) == {h \in Handles : should_track(Attributes(pre, h))}

\* C14: cleanup leaves nothing in the two maps and keeps the id counter,
\* above every id of the session it ends; and from any state cleanup can leave,
\* whatever the session before held, a successful initialize builds the
\* registry from the scan of the new server alone: fresh records under ids
\* no earlier session used, damage handles of the new connection, and the
\* flags just probed.
C14_NothingSurvivesASession ==
    /\ pc = "idle" /\ initialized =>
          /\ cleanup(Cur).windows = EmptyMap
          /\ cleanup(Cur).xwindow_to_id = EmptyMap
          /\ cleanup(Cur).next_window_id = next_window_id
          /\ \A id \in DOMAIN windows : id < next_window_id
    /\ pc = "idle" /\ ~initialized =>
          /\ windows = EmptyMap /\ xwindow_to_id = EmptyMap
          /\ \A o \in InitAnswers \ InitFailures :
                LET r == initialize(Cur, o)
                IN  /\ r.ret /\ r.initialized
                    /\ DOMAIN r.xwindow_to_id = Scanned(o.pre)
                    /\ \A h \in Scanned(o.pre) :
                          /\ r.xwindow_to_id[h] \in DOMAIN r.windows
                          /\ r.windows[r.xwindow_to_id[h]].xwindow = h
                    /\ Cardinality(DOMAIN r.windows) = Cardinality(Scanned(o.pre))
                    /\ \A id \in DOMAIN r.windows :
                          /\ id >= next_window_id
                          /\ ~r.windows[id].has_image
                          /\ r.windows[id].image_data = NoImage
                          /\ r.windows[id].damage # None <=> o.dmg
                          /\ o.dmg => r.srv[r.windows[id].xwindow].dmg
                                          = r.windows[id].damage
                    /\ \A id \in 1 .. (next_window_id - 1) :
                          get_window_buffer(r, id) = NullImage
                    /\ r.composite_available = o.comp
                    /\ r.damage_available = o.dmg

\* C14: a second session, after one that issued ids, tracks a window with a
\* cached image and a damage handle.
C14_Witness ==
    /\ pc = "idle"
    /\ initialized
    /\ composite_available /\ damage_available
    /\ \E id \in DOMAIN windows :
          windows[id].has_image /\ windows[id].damage # None
    /\ \E id \in 1 .. (next_window_id - 1) : id \notin DOMAIN windows

(***************************************************************************)
(* C15: get_window_buffer(id) never captures and never changes state: it   *)
(* returns an image exactly when id is tracked, has_image is true,         *)
(* image_data is non-empty and width and height are positive, and absent   *)
(* otherwise; it leaves the registry, has_image and image_data unchanged   *)
(* and issues no pixel read.                                               *)
(***************************************************************************)
\* The X11 accessor returns the cached image exactly when it is valid.  It
\* is a function of the registry alone: the method writes no member and
\* sends no request.
X11BufferIsTheCache ==
    \A id \in AnyIds :
       LET image == get_window_buffer(Cur, id)
           valid == /\ id \in DOMAIN windows
                    /\ windows[id].has_image
                    /\ windows[id].image_data # NoImage
                    /\ windows[id].width > 0 /\ windows[id].height > 0
       IN  /\ ~image.null <=> valid
           /\ valid => /\ image.data = windows[id].image_data
                        /\ image.width = windows[id].width
                        /\ image.height = windows[id].height

NoCompositeNoImage ==
    initialized /\ ~composite_available =>
       /\ \A id \in DOMAIN windows : ~windows[id].has_image
       /\ \A id \in AnyIds : get_window_buffer(Cur, id).null

C16_NoCompositeNoImage == []NoCompositeNoImage

\* C16: without compositing, a tick has drained its events and ended
\* without a capture while a mapped window the server would have pixels
\* for is tracked.
C16_Witness ==
    /\ initialized /\ ~composite_available
    /\ pc = "idle" /\ queue = <<>>
    /\ \E id \in DOMAIN windows :
          /\ windows[id].mapped
          /\ windows[id].height = 20
          /\ "bpp32" \in CaptureOutcomes(Cur, id)

(***************************************************************************)
(* C17: if the damage extension was absent at initialize (compositing      *)
(* available), every tick re-reads the pixels of every tracked window that *)
(* is mapped and has positive dimensions, whatever its has_image; no       *)
(* damage object is created for any window; initialize still succeeds.     *)
(***************************************************************************)
\* The tracked windows after registry key c that are mapped with positive
\* dimensions.
PollSet(c) ==
    {id \in DOMAIN windows :
        /\ id > c
        /\ windows[id].mapped
        /\ windows[id].width > 0 /\ windows[id].height > 0}

Least(ids) == CHOOSE i \in ids : \A j \in ids : i <= j

\* C17: a session without damage tracking is a session (initialize succeeded
\* when the probe said no); it holds no damage object; the capture of each
\* mapped window with positive dimensions asks the server for its pixels;
\* and the capture pass of a tick, begun when the drain ends, takes those
\* windows one after the other in key order and ends only after the last
\* (a step of the capture pass is one that moves pc or cursor).
C17_PollingWithoutDamage ==
    [][/\ pc = "idle" /\ ~initialized =>
             \A o \in InitAnswers \ InitFailures :
                ~o.dmg => LET r == initialize(Cur, o)
                          IN  r.ret /\ r.initialized /\ ~r.damage_available
       /\ initialized /\ composite_available /\ ~damage_available =>
             /\ \A id \in DOMAIN windows : windows[id].damage = None
             /\ \A h \in Handles : srv[h].dmg = None
             /\ \A id \in PollSet(0) :
                   "XGetImage" \in
                      {capture_window_contents(Cur, id, "bpp32").reqs[i].op :
                          i \in DOMAIN capture_window_contents(Cur, id, "bpp32").reqs}
             /\ pc # "capture" /\ pc' = "capture" =>
                   cursor' = 0 /\ queue = <<>> /\ PollSet(0) # {}
             /\ pc = "drain" /\ pc' = "idle" =>
                   queue = <<>> /\ PollSet(0) = {}
             /\ pc = "capture" /\ <<pc, cursor>>' # <<pc, cursor>> =>
                   /\ PollSet(cursor) # {}
                   /\ \A id \in DOMAIN windows \ {Least(PollSet(cursor))} :
                         windows'[id] = windows[id]
                   /\ pc' = "capture" =>
                         /\ cursor' = Least(PollSet(cursor))
                         /\ PollSet(cursor') # {}
                   /\ pc' # "capture" =>
                         /\ pc' = "idle"
                         /\ PollSet(Least(PollSet(cursor))) = {}
      ]_vars

\* C17: without damage tracking the capture pass is about to read again a
\* window whose image is valid.
C17_Witness ==
    /\ initialized /\ composite_available /\ ~damage_available
    /\ pc = "capture"
    /\ PollSet(cursor) # {}
    /\ windows[Least(PollSet(cursor))].has_image

(***************************************************************************)
(* C18: for every tracked window and every local coordinate (x, y),        *)
(* send_mouse_button and send_mouse_motion inject an event addressed to    *)
(* the window's handle whose window-relative coordinates are (x, y) and    *)
(* whose absolute coordinates are (ox + x, oy + y), (ox, oy) being the     *)
(* window's root-relative origin obtained by coordinate translation at     *)
(* call time, not the cached x and y (which may differ from it): origin    *)
(* (100, 50) and local (10, 10) give (110, 60).                            *)
(***************************************************************************)
\* Local coordinates and buttons a caller passes.
Locals == {<<10, 10>>, <<0, 0>>, <<-5, 3>>}

Buttons == {1, 3}

\* The event e is addressed to xwindow at the local coordinates loc.
Addressed(e, xwindow, loc) ==
    /\ e.op = "XSendEvent"
    /\ e.arg.window = xwindow
    /\ e.arg.x = loc[1] /\ e.arg.y = loc[2]

\* The state predicate of C18, stated of one state.
MouseCoordinates ==
    pc = "idle" =>
       \A id \in DOMAIN windows, loc \in Locals :
          LET xwindow == windows[id].xwindow
              alive == srv[xwindow].exists
              root == <<srv[xwindow].geom.x + loc[1], srv[xwindow].geom.y + loc[2]>>
          IN  \A origin \in Origins(Cur, xwindow) :
                 /\ \A button \in Buttons, pressed \in BOOLEAN :
                       LET reqs == send_mouse_button(Cur, id, button, pressed,
                                                     loc[1], loc[2], origin).reqs
                       IN  /\ Len(reqs) = 2
                           /\ Addressed(reqs[1], xwindow, loc)
                           /\ reqs[1].arg.type =
                                 IF pressed THEN "ButtonPress" ELSE "ButtonRelease"
                           /\ reqs[1].arg.detail = button
                           /\ Delivered(Cur, reqs) = IF alive THEN <<reqs[1]>> ELSE <<>>
                           /\ alive => <<reqs[1].arg.x_root, reqs[1].arg.y_root>> = root
                 /\ LET reqs == send_mouse_motion(Cur, id, loc[1], loc[2], origin).reqs
                    IN  /\ Len(reqs) = 2
                        /\ Addressed(reqs[1], xwindow, loc)
                        /\ reqs[1].arg.type = "MotionNotify"
                        /\ Delivered(Cur, reqs) = IF alive THEN <<reqs[1]>> ELSE <<>>
                        /\ alive => <<reqs[1].arg.x_root, reqs[1].arg.y_root>> = root

AllKeys == InputKeys \cup {KEY_ENTER, 8364}

\* C19: a key call whose key code the keyboard lacks sends nothing and
\* leaves the registry and the latch as they were, modifier or not.
C19_UnmappedKeyDropped ==
    pc = "idle" =>
       \A id \in AnyIds, godot_keycode \in AllKeys, pressed \in BOOLEAN :
          LET st == send_key_event(Cur, id, godot_keycode, pressed, 0)
          IN  /\ st.reqs = <<>>
              /\ st.modifier_state = modifier_state
              /\ st = Cur

\* C19: with a window tracked and shift latched, the last call of the
\* injector sent nothing.
C19_Witness ==
    /\ pc = "idle"
    /\ display
    /\ DOMAIN windows # {}
    /\ HasMask(modifier_state, ShiftMask)
    /\ sent = <<>>

(***************************************************************************)
(* C20: every call send_key_event(id, code, pressed) whose code is the     *)
(* shift, control or alt key updates the latched modifier state (the       *)
(* corresponding bit is set on press and cleared on release), for every    *)
(* value of id and independent of whether an event ends up being           *)
(* delivered.                                                              *)
(***************************************************************************)
\* The bit of the latch each of the three keys stands for.
ModifierMask(godot_keycode) ==
    CASE godot_keycode = KEY_SHIFT -> ShiftMask
      [] godot_keycode = KEY_CTRL -> ControlMask
      [] godot_keycode = KEY_ALT -> Mod1Mask

ModifierKeys == {KEY_SHIFT, KEY_CTRL, KEY_ALT}

\* C20: every call with a modifier key code for a tracked window sets or
\* clears the bit of that modifier in the latch.
C20_EveryModifierCallLatches ==
    pc = "idle" =>
       \A id \in AnyIds, godot_keycode \in ModifierKeys, pressed \in BOOLEAN :
          \A x11_keycode \in Keycodes(Keysym(godot_keycode)) :
             LET st == send_key_event(Cur, id, godot_keycode, pressed, x11_keycode)
             IN  HasMask(st.modifier_state, ModifierMask(godot_keycode)) = pressed

\* C20, what the code does: the bit follows the call when the id is
\* tracked, the connection is open and the key has a physical key code, the
\* other bits staying; any other call leaves the latch as it was.
C20_LatchFollowsSentEventsOnly ==
    pc = "idle" =>
       \A id \in AnyIds, godot_keycode \in ModifierKeys, pressed \in BOOLEAN :
          \A x11_keycode \in Keycodes(Keysym(godot_keycode)) :
             LET st == send_key_event(Cur, id, godot_keycode, pressed, x11_keycode)
                 mask == ModifierMask(godot_keycode)
             IN  IF id \in DOMAIN windows /\ display /\ x11_keycode # 0
                 THEN /\ HasMask(st.modifier_state, mask) = pressed
                      /\ \A other \in {ShiftMask, ControlMask, Mod1Mask} \ {mask} :
                            HasMask(st.modifier_state, other)
                               = HasMask(modifier_state, other)
                      /\ Len(st.reqs) = 2
                      /\ st.reqs[1].arg.state = st.modifier_state
                 ELSE /\ st.modifier_state = modifier_state
                      /\ st.reqs = <<>>

\* C20: shift was latched by a press sent to a window that has since gone
\* from the registry, so that the release of shift, whatever id it names,
\* leaves shift latched.
C20_Witness ==
    /\ pc = "idle"
    /\ display
    /\ DOMAIN windows = {}
    /\ HasMask(modifier_state, ShiftMask)
    /\ \A id \in AnyIds :
          HasMask(send_key_event(Cur, id, KEY_SHIFT, FALSE, 8 + (XK_Shift_L % 248)).modifier_state,
                  ShiftMask)

(***************************************************************************)
(* C21: every key event delivered by send_key_event carries as its state   *)
(* field the current latched modifier state: after a delivered shift,      *)
(* control or alt press and until the matching delivered release, every    *)
(* delivered key event (press or release, of any key) has that modifier's  *)
(* bit set, and after the release the bit is clear; non-modifier key       *)
(* events never change the latch.                                          *)
(*                                                                         *)
(* The latch starts clear and every event is stamped with the latch, so    *)
(* the claim is the same as: in every state a call may be made in, the     *)
(* call stamps the latch it leaves behind, a press or release of a         *)
(* modifier leaves its bit set or clear, and the bit of a modifier         *)
(* changes in no other call.                                               *)
(***************************************************************************)
\* The keys that drive the bit of modifier m in the latch.
KeysOf(m) == IF m = KEY_ALT THEN {KEY_ALT, KEY_META} ELSE {m}

\* C21, as stated: the events that count are those the server delivers, and
\* each bit has one key.
C21_LatchFollowsDeliveredKeys ==
    pc = "idle" =>
       \A id \in CalledIds, godot_keycode \in InputKeys, pressed \in BOOLEAN :
          \A x11_keycode \in Keycodes(Keysym(godot_keycode)) :
             LET st == send_key_event(Cur, id, godot_keycode, pressed, x11_keycode)
                 wire == Wire(st)
                 delivered == wire # <<>> /\ wire[1].delivered
             IN  /\ delivered => wire[1].event.state = st.modifier_state
                 /\ \A m \in ModifierKeys :
                       IF delivered /\ godot_keycode = m
                       THEN HasMask(st.modifier_state, ModifierMask(m)) = pressed
                       ELSE HasMask(st.modifier_state, ModifierMask(m))
                               = HasMask(modifier_state, ModifierMask(m))

\* C21, as the code has it: the events that count are those handed to
\* XSendEvent, delivered or not, and alt and meta drive one bit.
C21_LatchFollowsSentKeys ==
    pc = "idle" =>
       \A id \in CalledIds, godot_keycode \in InputKeys, pressed \in BOOLEAN :
          \A x11_keycode \in Keycodes(Keysym(godot_keycode)) :
             LET st == send_key_event(Cur, id, godot_keycode, pressed, x11_keycode)
                 wire == Wire(st)
             IN  /\ Len(wire) <= 1
                 /\ wire # <<>> =>
                       /\ wire[1].event.state = st.modifier_state
                       /\ wire[1].event.type
                             = IF pressed THEN "KeyPress" ELSE "KeyRelease"
                 /\ \A m \in ModifierKeys :
                       IF wire # <<>> /\ godot_keycode \in KeysOf(m)
                       THEN HasMask(st.modifier_state, ModifierMask(m)) = pressed
                       ELSE HasMask(st.modifier_state, ModifierMask(m))
                               = HasMask(modifier_state, ModifierMask(m))

\* C21: the press of a letter has just been delivered to a window, stamped
\* with shift and control, both latched by earlier presses.
C21_Witness ==
    /\ pc = "idle"
    /\ Len(sent) = 1
    /\ sent[1].delivered
    /\ sent[1].event.type = "KeyPress"
    /\ sent[1].event.detail = 8 + (97 % 248)
    /\ sent[1].event.state = ShiftMask + ControlMask
    /\ modifier_state = ShiftMask + ControlMask

(***************************************************************************)
(* C22: the latched modifier state is one process-wide value shared by     *)
(* all windows: a modifier press delivered to window A sets the bit        *)
(* stamped on key events subsequently delivered to any other window B,     *)
(* and the latch is not reset by removal of window A, by cleanup() or by   *)
(* a later initialize().                                                   *)
(***************************************************************************)
\* The key code the keyboard has for a key of InputKeys when it has one.
Mapped(godot_keycode) == 8 + (Keysym(godot_keycode) % 248)

\* A press of modifier m delivered to a, then a press of a letter delivered
\* to another window b: the second event goes to b's handle with m's bit.
SharedByWindows ==
    pc = "idle" =>
       \A a \in DOMAIN windows, b \in DOMAIN windows, m \in ModifierKeys :
          LET first == send_key_event(Cur, a, m, TRUE, Mapped(m))
              second == send_key_event(first, b, 97, TRUE, Mapped(97))
              wire == Wire(second)
          IN  (a # b /\ Len(wire) = 2 /\ wire[1].delivered /\ wire[2].delivered) =>
                 /\ wire[2].event.window = windows[b].xwindow
                 /\ HasMask(wire[2].event.state, ModifierMask(m))
                 /\ second.modifier_state = first.modifier_state

\* The latch changes only in a call of send_key_event that sends an event:
\* never in a step that removes a window, cleans up or initializes.
LatchKept ==
    modifier_state' # modifier_state =>
       /\ pc = "idle" /\ pc' = "idle"
       /\ sent' # <<>>
       /\ sent'[1].event.type \in {"KeyPress", "KeyRelease"}
       /\ UNCHANGED <<windows, xwindow_to_id, initialized, display, xephyr_pid>>

\* C22: every window sees the one latch, which neither the window a key
\* went to, nor the removal of a window, nor cleanup and initialize reset;
\* it changes only in a call that sends a key event.
C22_OneLatchForTheProcess == []SharedByWindows /\ [][LatchKept]_vars

\* C22: a shift press was delivered to a window, the compositor has since
\* been cleaned up, and shift is still latched.
C22_Witness ==
    /\ pc = "idle"
    /\ ~initialized /\ ~display
    /\ DOMAIN windows = {}
    /\ Len(sent) = 1
    /\ sent[1].delivered
    /\ sent[1].event.type = "KeyPress"
    /\ sent[1].event.detail = Mapped(KEY_SHIFT)
    /\ HasMask(modifier_state, ShiftMask)

(***************************************************************************)
(* C23: the session address accessor (get_display_name in the X11          *)
(* variant, get_socket_name in the Wayland variant) returns the empty      *)
(* string in every state where is_initialized() is false: before the first *)
(* initialize(), after a failed initialize(), and after cleanup(); it      *)
(* returns a non-empty address in every state where is_initialized() is    *)
(* true.                                                                   *)
(***************************************************************************)
C23_AddressOnlyWhileInitialized ==
    /\ (get_display_name(Cur) # <<>>) <=> is_initialized(Cur)
    /\ WaylandCompositor_get_socket_name(wl) <=> WaylandCompositor_is_initialized(wl)

\* C23, what the code does: the X11 accessor is as claimed; the Wayland
\* accessor returns a name whenever the compositor is initialized, and is
\* empty until an initialize has added the socket.
C23_AddressWhileInitialized ==
    /\ (get_display_name(Cur) # <<>>) <=> is_initialized(Cur)
    /\ is_initialized(Cur) => get_display_name(Cur) = <<":", display_number>>
    /\ WaylandCompositor_is_initialized(wl) => WaylandCompositor_get_socket_name(wl)
    /\ wl = NewWayland => ~WaylandCompositor_get_socket_name(wl)

\* C23: the Wayland compositor is not initialized, nothing of it is left
\* but the name of the socket of the session that was cleaned up (or whose
\* backend failed to start), which the accessor still returns.
C23_Witness ==
    /\ ~WaylandCompositor_is_initialized(wl)
    /\ WaylandCompositor_get_socket_name(wl)

(***************************************************************************)
(* C24: should_track_window(h) is true exactly when h's attributes can be  *)
(* queried, h is not input-only, width >= 10 and height >= 10, and (h      *)
(* carries a window-state property or h's map state is viewable).  In      *)
(* particular it is false for every surface with width < 10 or height <    *)
(* 10 regardless of other attributes, and true for a surface of width 50,  *)
(* height 20 with a window-state property set.                             *)
(***************************************************************************)
C24_FilterCorrect ==
    (bench.kind = "should_track_window" /\ bench.done) =>
       LET a == bench.args
       IN  /\ bench.result
              <=> /\ a.ok
                  /\ ~a.input_only
                  /\ a.width >= 10
                  /\ a.height >= 10
                  /\ (a.wm_state \/ a.viewable)
           /\ (a.width < 10 \/ a.height < 10) => ~bench.result
           /\ (a.ok /\ ~a.input_only /\ a.width = 50 /\ a.height = 20 /\ a.wm_state)
                 => bench.result

\* C24: the filter has accepted an unmapped surface of 50 x 20 that carries
\* the window-state property.
C24_Witness ==
    /\ bench.kind = "should_track_window"
    /\ bench.done
    /\ bench.args.width = 50 /\ bench.args.height = 20
    /\ bench.args.wm_state /\ ~bench.args.viewable
    /\ bench.result

(***************************************************************************)
(* C25: for every source image of width w, height h and row stride         *)
(* s >= 4*w in the source's native 32-bit layout, a successful capture     *)
(* stores an image_data of length w*h*4 in which the pixel at (x, y) has   *)
(* red, green and blue equal to the red, green and blue channels of the    *)
(* source pixel located at byte offset y*s + 4*x, correctly reordered for  *)
(* whichever channel byte order the source uses, with no byte of row       *)
(* padding appearing in the output.                                        *)
(***************************************************************************)
\* A conversion of a 32-bit source has returned.
ConversionDone ==
    /\ bench.kind \in {"capture_window_contents", "get_window_buffer"}
    /\ bench.done
    /\ bench.args.bits_per_pixel = 32

\* The bytes of the pixel rows of the source, without the row padding.
PixelBytes(image) ==
    {image.data[y * image.stride + i] :
        y \in 0 .. (image.height - 1), i \in 0 .. (4 * image.width - 1)}

\* C25: each output pixel carries the red, green and blue channel values of
\* the source pixel at the same place, in that order.
C25_ChannelsOfTheSource ==
    ConversionDone =>
       LET image == bench.args
           out == bench.result
       IN  /\ out.has_image
           /\ out.size = image.width * image.height * 4
           /\ DOMAIN out.image_data = 0 .. (out.size - 1)
           /\ \A x \in 0 .. (image.width - 1), y \in 0 .. (image.height - 1) :
                 LET dst == (y * image.width + x) * 4
                 IN  /\ out.image_data[dst + 0] = Channel(image, x, y, image.red_shift)
                     /\ out.image_data[dst + 1] = Channel(image, x, y, 8)
                     /\ out.image_data[dst + 2] = Channel(image, x, y, 16 - image.red_shift)

\* C25, what the code does: red, green and blue are bytes 2, 1 and 0 of
\* the source pixel at offset y*s + 4*x, whatever the byte order and the
\* channel masks of the source; these are its red, green and blue channels
\* when the source is least-significant-byte-first with red above blue, and
\* no byte of row padding reaches the output.
C25_BytesOfTheSource ==
    ConversionDone =>
       LET image == bench.args
           out == bench.result
       IN  /\ out.has_image
           /\ out.size = image.width * image.height * 4
           /\ DOMAIN out.image_data = 0 .. (out.size - 1)
           /\ \A x \in 0 .. (image.width - 1), y \in 0 .. (image.height - 1) :
                 LET dst == (y * image.width + x) * 4
                     src == y * image.stride + 4 * x
                 IN  /\ out.image_data[dst + 0] = image.data[src + 2]
                     /\ out.image_data[dst + 1] = image.data[src + 1]
                     /\ out.image_data[dst + 2] = image.data[src + 0]
                     /\ (image.byte_order = "LSBFirst" /\ image.red_shift = 16) =>
                           /\ out.image_data[dst + 0] = Channel(image, x, y, image.red_shift)
                           /\ out.image_data[dst + 1] = Channel(image, x, y, 8)
                           /\ out.image_data[dst + 2] = Channel(image, x, y, 16 - image.red_shift)
           /\ \A i \in 0 .. (out.size - 1) :
                 i % 4 # 3 => out.image_data[i] \in PixelBytes(image)

\* C25: a 2 x 2 image with padded rows whose bytes lie most significant
\* first was captured, and the red of its last pixel is not the red of the
\* source.
C25_Witness ==
    /\ ConversionDone
    /\ bench.kind = "capture_window_contents"
    /\ bench.args.width = 2 /\ bench.args.height = 2
    /\ bench.args.stride = 12
    /\ bench.args.byte_order = "MSBFirst"
    /\ bench.result.image_data[12] # Channel(bench.args, 1, 1, bench.args.red_shift)

(***************************************************************************)
(* C26: when the source pixel format has no meaningful alpha channel (the  *)
(* 4th byte is padding), every alpha byte of the converted RGBA8 output is *)
(* 255 whatever the source's 4th byte contains; the source's 4th byte is   *)
(* copied to the output alpha only when the source format carries alpha.   *)
(***************************************************************************)
\* The alpha bytes of a converted image.
Alphas(out) == {out.image_data[i] : i \in {j \in 0 .. (out.size - 1) : j % 4 = 3}}

\* C26: the output is opaque when the source carries no alpha, and has the
\* alpha of the source when it carries one.
C26_OpaqueWithoutAlpha ==
    ConversionDone =>
       (~bench.args.alpha => Alphas(bench.result) = {255})

\* C26, what the code does: the X11 conversion writes 255 into every alpha
\* byte whether or not the source carries alpha; the Wayland conversion
\* copies byte 3 of every source pixel into alpha whether or not the source
\* carries alpha.
C26_AlphaByVariant ==
    ConversionDone =>
       LET image == bench.args
           out == bench.result
       IN  IF bench.kind = "capture_window_contents"
           THEN Alphas(out) = {255}
           ELSE \A x \in 0 .. (image.width - 1), y \in 0 .. (image.height - 1) :
                   out.image_data[(y * image.width + x) * 4 + 3]
                      = image.data[y * image.stride + 4 * x + 3]

\* C26: a client's buffer without alpha, whose padding bytes are not 255,
\* was converted by the Wayland variant, and the image returned is not
\* opaque.
C26_Witness ==
    /\ ConversionDone
    /\ bench.kind = "get_window_buffer"
    /\ ~bench.args.alpha
    /\ 255 \notin Alphas(bench.result)

(***************************************************************************)
(* C27: cache coherence under damage tracking: for a tracked, mapped       *)
(* window, if the surface content changes on the server after the pixels   *)
(* of the last successful capture were read, then a damage event for that  *)
(* window is (or becomes) pending, and once it is dispatched has_image is   *)
(* false until a later capture; hence in every state with an empty event   *)
(* queue and has_image = true the cached buffer equals the surface's       *)
(* current content, and a content change is never permanently missed when  *)
(* ticks keep running.                                                     *)
(***************************************************************************)
\* The positions in the queue of the damage events of damage object d.
PendingDamage(d) ==
    {i \in DOMAIN queue : queue[i].type = "DamageNotify" /\ queue[i].damage = d}

\* The registry entries that hold an image of a surface drawn into since.
Outdated ==
    {id \in DOMAIN windows :
        /\ windows[id].mapped
        /\ windows[id].has_image
        /\ stale[windows[id].xwindow]}

C27_CacheCoherent ==
    damage_available =>
       /\ \A id \in Outdated :
             /\ PendingDamage(windows[id].damage) # {}
             /\ \A i \in PendingDamage(windows[id].damage) :
                   ~Dispatch(Cur, queue[i]).windows[id].has_image
       /\ queue = <<>> => Outdated = {}

\* An outdated image does not stay: its window is invalidated, captured
\* again, unmapped or removed.
NeverMissed == \A id \in 1 .. (MaxId + 1) : (id \in Outdated) ~> (id \notin Outdated)

\* C27: a valid cached image is the content of its window but for damage
\* still to be dispatched, and no outdated image stays.
C27_CoherentAndNeverMissed == []C27_CacheCoherent /\ NeverMissed

\* C27: a window holds an image, a client has drawn into it since the
\* pixels were read, and the damage event is waiting in the queue.
C27_Witness ==
    /\ damage_available
    /\ pc = "idle"
    /\ Outdated # {}
    /\ \E id \in Outdated : PendingDamage(windows[id].damage) # {}

SameFlags(st) ==
    \A id \in DOMAIN st.windows \cap DOMAIN windows :
       st.windows[id].mapped = windows[id].mapped

\* Input injection, which is no step of the tick, leaves the flags alone.
FlagsLeftAlone ==
    (pc = "idle" /\ display) =>
       \A id \in DOMAIN windows, pressed \in BOOLEAN :
          /\ \A origin \in Origins(Cur, windows[id].xwindow) :
                /\ SameFlags(send_mouse_button(Cur, id, 1, pressed, 10, 10, origin))
                /\ SameFlags(send_mouse_motion(Cur, id, 10, 10, origin))
          /\ \A godot_keycode \in {KEY_SHIFT, 97} :
                SameFlags(send_key_event(Cur, id, godot_keycode, pressed,
                                         Mapped(godot_keycode)))

\* A step that changes the flag of a record (among the steps are the
\* dispatch of every kind of event and the captures) is the dispatch of a
\* map or unmap event for the handle of that record.
FlagChangedByItsEvent ==
    \A id \in DOMAIN windows \cap DOMAIN windows' :
       windows'[id].mapped # windows[id].mapped =>
          /\ Dispatching
          /\ Head(queue).type = IF windows'[id].mapped THEN "MapNotify" ELSE "UnmapNotify"
          /\ Head(queue).window = windows[id].xwindow
          /\ queue' = Tail(queue)

\* C29: the mapped flag of a record changes only in the dispatch of a map
\* or unmap event for the handle of that record.
C29_MappedOnlyByMapEvents == []FlagsLeftAlone /\ [][FlagChangedByItsEvent]_vars

\* C29: two windows are tracked, one mapped and one not, and the drain is
\* about to dispatch the unmap event of the mapped one.
C29_Witness ==
    /\ Dispatching
    /\ Head(queue).type = "UnmapNotify"
    /\ Head(queue).window \in Tracked
    /\ Cardinality(DOMAIN windows) = 2
    /\ windows[xwindow_to_id[Head(queue).window]].mapped
    /\ \E id \in DOMAIN windows :
          /\ windows[id].xwindow # Head(queue).window
          /\ ~windows[id].mapped

(***************************************************************************)
(* C30: dispatching a destroy, unmap or configure event for an untracked   *)
(* handle, a damage event for a damage handle owned by no tracked window,  *)
(* or an event of an unrecognised kind leaves the whole compositor state   *)
(* unchanged (registry, reverse lookup, id counter, every window's         *)
(* fields).                                                                *)
(***************************************************************************)
\* event is one that the handlers have nothing to do for in the current
\* state.
Dropped(event) ==
    \/ /\ event.type \in {"DestroyNotify", "UnmapNotify", "ConfigureNotify"}
       /\ event.window \notin DOMAIN xwindow_to_id
    \/ /\ event.type = "DamageNotify"
       /\ \A id \in DOMAIN windows : windows[id].damage # event.damage
    \/ event.type = "MappingNotify"

\* The events of those kinds a server can send.
DroppedEvents ==
    {event \in
        {Event(t, h, g, None) :
            t \in {"DestroyNotify", "UnmapNotify", "ConfigureNotify"},
            h \in Handles, g \in Geoms}
        \cup {Event("DamageNotify", h, Geom0, d) : h \in Handles, d \in DamageIds}
        \cup {Event("MappingNotify", None, Geom0, None)} :
     Dropped(event)}

\* One session of the compositor with a server that sends the structure
\* events of its windows and events of a kind _process has no case for.
NextDropped ==
    \/ Initialize
    \/ TickStart
    \/ DrainStep
    \/ DrainEnd
    \/ CaptureStep
    \/ SrvCreate
    \/ SrvMap
    \/ SrvUnmap
    \/ SrvConfigure
    \/ SrvDestroy
    \/ SrvMapping

SpecDropped == Init /\ [][NextDropped]_vars

\* C30: whenever the compositor is connected, the dispatch of such an event
\* returns the state it was given, with no request made to the server; and
\* the step of the drain that takes such an event from the queue changes
\* nothing but the queue.
C30_DroppedEventsChangeNothing ==
    (initialized /\ display /\ pc \in {"idle", "drain"}) =>
       /\ \A event \in DroppedEvents : Dispatch(Cur, event) = Cur
       /\ (Dispatching /\ Dropped(Head(queue))) =>
             Dispatch(Cur, Head(queue)) = Cur

\* C30: two windows are tracked, one with a valid image, and the drain is
\* about to dispatch an event of a kind _process has no case for.
C30_Witness ==
    /\ Dispatching
    /\ Head(queue).type = "MappingNotify"
    /\ Cardinality(DOMAIN windows) = 2
    /\ \E id \in DOMAIN windows : windows[id].has_image

(***************************************************************************)
(* C31: add_window(h) for an already tracked handle h is a no-op: the id   *)
(* counter is not advanced, no second record or damage object is created,  *)
(* and the existing record is unchanged; likewise an add whose attribute   *)
(* query fails consumes no id and changes nothing.                         *)
(***************************************************************************)
\* The state predicate of C31, stated of one state.
AddWindowNoOp ==
    (initialized /\ display) =>
       \A xwin \in Handles :
          (xwin \in DOMAIN xwindow_to_id \/ ~Attributes(srv, xwin).ok) =>
             add_window(Cur, xwin) = Cur

\* C31: whenever the compositor is connected, add_window returns the state
\* it was given, with no request made to the server (no XDamageCreate, no
\* XSelectInput), for every tracked handle and for every handle whose
\* window the server no longer has.
C31_AddWindowNoOp == []AddWindowNoOp

\* C31: with damage tracking, one window is tracked with a valid image,
\* the window of the other handle is gone, and an id is left to issue.
C31_Witness ==
    /\ initialized /\ display /\ damage_available
    /\ next_window_id <= MaxId
    /\ \E h \in DOMAIN xwindow_to_id :
          /\ windows[xwindow_to_id[h]].has_image
          /\ windows[xwindow_to_id[h]].damage # None
    /\ \E h \in Handles : h \notin DOMAIN xwindow_to_id /\ ~srv[h].exists

(***************************************************************************)
(* C32: every release of a tracked window's damage object (in              *)
(* remove_window and in cleanup) is immediately preceded and immediately   *)
(* followed by a flush/sync of the connection, and happens before the      *)
(* window's registry and reverse-lookup entries are erased and before the  *)
(* connection is closed.                                                   *)
(***************************************************************************)
\* The places of the requests op in the log reqs.
Places(reqs, op) == {i \in DOMAIN reqs : reqs[i].op = op}

\* Every release in reqs has a sync of the connection right before it and
\* right after it.
Bracketed(reqs) ==
    \A i \in Places(reqs, "XDamageDestroy") :
       /\ i - 1 \in Places(reqs, "XSync")
       /\ i + 1 \in Places(reqs, "XSync")

\* The damage objects of the records ids of st are released in reqs, each
\* once, by the handle its record held on entry, and nothing else is; no
\* release comes after the connection is closed.
Releases(st, ids, reqs) ==
    /\ \A id \in ids :
          st.windows[id].damage # None =>
             Cardinality({i \in Places(reqs, "XDamageDestroy") :
                             reqs[i].arg = st.windows[id].damage}) = 1
    /\ \A i \in Places(reqs, "XDamageDestroy") :
          /\ \E id \in ids : reqs[i].arg = st.windows[id].damage
          /\ \A j \in Places(reqs, "XCloseDisplay") : i < j

\* The records of st that hold a damage object to release.
Holding(st) ==
    IF st.damage_available
    THEN {id \in DOMAIN st.windows : st.windows[id].damage # None} ELSE {}

\* What remove_window does: the release of the damage object of the record
\* is between two syncs, and the record and its lookup entry are gone on
\* return.
RemoveReleases ==
    \A xwin \in DOMAIN xwindow_to_id :
       LET st == remove_window(Cur, xwin)
           id == xwindow_to_id[xwin]
       IN  /\ Releases(Cur, Holding(Cur) \cap {id}, st.reqs)
           /\ Bracketed(st.reqs)
           /\ id \notin DOMAIN st.windows
           /\ xwin \notin DOMAIN st.xwindow_to_id

\* C32, as stated: the releases of remove_window and of cleanup are each
\* between two syncs, and come before the erasure and the close.
C32_ReleaseBetweenSyncs ==
    (initialized /\ display) =>
       /\ RemoveReleases
       /\ Releases(Cur, Holding(Cur), cleanup(Cur).reqs)
       /\ Bracketed(cleanup(Cur).reqs)

\* C32, as the code has it: the releases of remove_window are each between
\* two syncs; those of cleanup come before the erasure and the close, with
\* no sync of the connection anywhere in cleanup.
C32_ReleaseBeforeClose ==
    (initialized /\ display) =>
       /\ RemoveReleases
       /\ Releases(Cur, Holding(Cur), cleanup(Cur).reqs)
       /\ Places(cleanup(Cur).reqs, "XSync") = {}
       /\ cleanup(Cur).windows = EmptyMap
       /\ cleanup(Cur).xwindow_to_id = EmptyMap

\* C32: two windows with damage objects are tracked when cleanup may run.
C32_Witness ==
    /\ pc = "idle" /\ initialized /\ display
    /\ Cardinality(Holding(Cur)) = 2

(***************************************************************************)
(* C33: in the Wayland variant, after the destroy event of a tracked       *)
(* toplevel is handled, its id is no longer returned by get_window_ids()   *)
(* and get_window_buffer/get_window_size for that id return absent/(0,0);  *)
(* no registry entry referring to a destroyed toplevel remains reachable.  *)
(***************************************************************************)
\* The ids of the records whose toplevel was destroyed.
Destroyed(w) ==
    {id \in DOMAIN w.windows : w.surfaces[w.windows[id].toplevel].gone}

\* C33, as stated: no record refers to a destroyed toplevel, and the
\* accessors answer for the id of a destroyed toplevel as for an unknown id.
C33_DestroyedToplevelRemoved ==
    wl.initialized =>
       \A id \in Destroyed(wl) :
          /\ id \notin WaylandCompositor_get_window_ids(wl)
          /\ WaylandCompositor_get_window_size(wl, id) = <<0, 0>>

\* C33, as the code has it: the destroy handler leaves the map alone, so
\* within a session every id stays in get_window_ids with its record, and
\* a record whose toplevel was destroyed still answers get_window_size
\* with the size last committed.
C33_DestroyedToplevelKept ==
    [][(wl.initialized /\ wl'.initialized) =>
          \A id \in WaylandCompositor_get_window_ids(wl) :
             /\ id \in WaylandCompositor_get_window_ids(wl')
             /\ wl'.windows[id].toplevel = wl.windows[id].toplevel
             /\ (id \in Destroyed(wl) =>
                    /\ id \in Destroyed(wl')
                    /\ WaylandCompositor_get_window_size(wl', id)
                          = WaylandCompositor_get_window_size(wl, id))]_vars

\* C33: the toplevel of a tracked window that had committed a size was
\* destroyed, and its id is still listed.
C33_Witness ==
    /\ wl.initialized
    /\ \E id \in Destroyed(wl) :
          /\ id \in WaylandCompositor_get_window_ids(wl)
          /\ WaylandCompositor_get_window_size(wl, id) # <<0, 0>>

(***************************************************************************)
(* C34: in every reachable state, for every tracked window W,              *)
(* get_parent_window_id(W.id) is either -1 or the id of a currently        *)
(* tracked window other than W; in particular it does not keep naming a    *)
(* parent that has since been removed, and it names the parent whenever    *)
(* W's transient-for target is a tracked surface.                          *)
(***************************************************************************)
\* The id of the record of the transient-for target of the record id, -1
\* when the target is not set or not tracked.
ParentNow(st, id) ==
    LET parent_xwin == TransientFor(st.windows[id].xwindow)
    IN  IF parent_xwin # None /\ parent_xwin \in DOMAIN st.xwindow_to_id
        THEN st.xwindow_to_id[parent_xwin] ELSE -1

\* C34, as stated: the parent id of every tracked window is that of the
\* record its transient-for target has now, -1 when it has none, and never
\* its own.
C34_ParentIsTracked ==
    \A id \in get_window_ids(Cur) :
       /\ get_parent_window_id(Cur, id) \in {-1} \cup (get_window_ids(Cur) \ {id})
       /\ get_parent_window_id(Cur, id) = ParentNow(Cur, id)

\* C34, as the code has it: the parent id is what the lookup gave when the
\* window was added and is never written again: -1, or an id issued before
\* the window's own, which names the transient-for target for as long as
\* that record is tracked and no record once it is removed.
C34_ParentAsOfAdd ==
    \A id \in get_window_ids(Cur) :
       LET p == get_parent_window_id(Cur, id)
       IN  p # -1 =>
              /\ p \in 1 .. (id - 1)
              /\ TransientFor(windows[id].xwindow) # None
              /\ p \in get_window_ids(Cur) =>
                    windows[p].xwindow = TransientFor(windows[id].xwindow)

\* C34: a tracked window names as its parent an id that is tracked no
\* longer.
C34_Witness ==
    /\ initialized /\ display
    /\ \E id \in get_window_ids(Cur) :
          /\ get_parent_window_id(Cur, id) # -1
          /\ get_parent_window_id(Cur, id) \notin get_window_ids(Cur)

(***************************************************************************)
(* C35: eventual consistency of visibility: whenever the event queue is    *)
(* empty at the end of a drain, the mapped flag of every tracked window    *)
(* equals the server's actual map state of that surface, even when the     *)
(* window was added from a live attribute query while older map/unmap      *)
(* events for the same handle were still queued behind the event that      *)
(* triggered the add.                                                      *)
(***************************************************************************)
\* C35: whenever the compositor is connected and no event is waiting (at
\* the end of a drain in particular), every tracked window exists on the
\* server and its mapped flag is the server's map state of it.
C35_MappedFlagsSettle ==
    (initialized /\ display /\ queue = <<>>) =>
       \A id \in DOMAIN windows :
          /\ srv[windows[id].xwindow].exists
          /\ windows[id].mapped = srv[windows[id].xwindow].viewable

\* C35: the event to dispatch is the create event of a window that is
\* not tracked yet and has been mapped since: the add takes the flag from
\* the live attributes, and the older map event of the window is behind it
\* in the queue.
C35_Witness ==
    /\ Dispatching
    /\ Len(queue) = 2
    /\ queue[1].type = "CreateNotify"
    /\ queue[2].type = "MapNotify"
    /\ queue[1].window = queue[2].window
    /\ queue[1].window \notin DOMAIN xwindow_to_id
    /\ should_track_window(Cur, queue[1].window)
    /\ srv[queue[1].window].viewable

(***************************************************************************)
(* C36: eventual consistency of geometry: whenever the event queue is      *)
(* empty at the end of a drain, the cached width and height of every       *)
(* tracked window equal the server's actual size of that surface, and if   *)
(* any configure event dispatched after the last capture changed the       *)
(* cached size then has_image is false until the next successful capture.  *)
(***************************************************************************)
\* Whenever the compositor is connected and no event is waiting, the size
\* every record holds is the size the server has for its window.
SizesSettle ==
    (initialized /\ display /\ queue = <<>>) =>
       \A id \in DOMAIN windows :
          /\ windows[id].width = srv[windows[id].xwindow].geom.width
          /\ windows[id].height = srv[windows[id].xwindow].geom.height

\* A step that changes the cached size of a record is the dispatch of a
\* configure event of its window and leaves the record without a valid
\* image; a step that makes the image of a record valid is a capture of
\* it.
SizeChangeInvalidates ==
    \A id \in DOMAIN windows \cap DOMAIN windows' :
       /\ (windows'[id].width # windows[id].width
             \/ windows'[id].height # windows[id].height) =>
             /\ Dispatching
             /\ Head(queue).type = "ConfigureNotify"
             /\ Head(queue).window = windows[id].xwindow
             /\ ~windows'[id].has_image
       /\ (~windows[id].has_image /\ windows'[id].has_image) =>
             /\ pc = "capture"
             /\ "bpp32" \in CaptureOutcomes(Cur, id)
             /\ windows' = capture_window_contents(Cur, id, "bpp32").windows

\* C36: sizes are the server's when no event is waiting, and an image
\* invalidated by a change of size stays invalid until a capture succeeds.
C36_SizesSettle == []SizesSettle /\ [][SizeChangeInvalidates]_vars

\* C36: the drain is about to dispatch a configure event that changes the
\* cached size of a window with a valid image.
C36_Witness ==
    /\ Dispatching
    /\ queue[1].type = "ConfigureNotify"
    /\ queue[1].window \in DOMAIN xwindow_to_id
    /\ windows[xwindow_to_id[queue[1].window]].has_image
    /\ windows[xwindow_to_id[queue[1].window]].width # queue[1].geom.width

(***************************************************************************)
(* C37: every event handler is idempotent under duplicate delivery:        *)
(* dispatching the same create, destroy, map, unmap, configure or damage   *)
(* event twice in a row (as happens when an event is reported both through *)
(* the root's substructure selection and the window's own structure        *)
(* selection) leaves the compositor in the same state as dispatching it    *)
(* once, and never issues a second id or a second damage object for one    *)
(* surface.                                                                *)
(***************************************************************************)
\* The state without the log of the requests that led to it.
Reached(st) == [st EXCEPT !.reqs = <<>>]

\* Dispatching event twice from the current state leaves what dispatching
\* it once leaves, the id counter and the damage objects included.
Idempotent(event) ==
    LET once == Dispatch(Cur, event)
    IN  Reached(Dispatch(once, event)) = Reached(once)

\* The events taken twice wherever they are dispatched: all but the map
\* event of an untracked window, whose first dispatch may add the window
\* with the flag the server reports at that moment and whose second
\* dispatch sets the flag; such an event is taken twice where the queue
\* holds it twice.
TakenTwice(event) ==
    event.type = "MapNotify" => event.window \in DOMAIN xwindow_to_id

\* The state predicate of C37, stated of one state.
DuplicatesIdempotent ==
    Dispatching =>
       ((TakenTwice(Head(queue)) \/ (Len(queue) >= 2 /\ queue[1] = queue[2]))
           => Idempotent(Head(queue)))

Failures(st, id) == CaptureOutcomes(st, id) \ {"bpp32"}

\* The state predicate of C38, stated of one state.
FailedCaptureKeepsFlag ==
    (initialized /\ display) =>
       \A id \in DOMAIN windows :
          Reads(Cur, id) =>
             \A o \in Failures(Cur, id) :
                LET st == capture_window_contents(Cur, id, o)
                IN  /\ st.windows[id].has_image = windows[id].has_image
                    /\ \A other \in DOMAIN windows \ {id} :
                          st.windows[other] = windows[other]
                    /\ DOMAIN st.windows = DOMAIN windows
                    /\ windows[id].has_image => st.windows[id] = windows[id]

\* C38: whenever the compositor is connected, a capture that passes its
\* guards and obtains no pixels leaves has_image of its window as it was
\* and every other record untouched, and leaves a window that had a valid
\* image with the very record it had.
C38_FailedCaptureKeepsFlag == []FailedCaptureKeepsFlag

\* C38: without damage tracking the capture pass is about to read again a
\* window whose image is valid, and the server may answer with pixels of
\* another depth.
C38_Witness ==
    /\ initialized /\ display /\ ~damage_available
    /\ pc = "capture"
    /\ \E id \in ToCapture(Cur, cursor) :
          /\ \A j \in ToCapture(Cur, cursor) : id <= j
          /\ windows[id].has_image
          /\ "bppOther" \in Failures(Cur, id)

(***************************************************************************)
(* C39: the alt bit (Mod1) of the latched modifier state is driven by both *)
(* the alt and the meta key codes: it is set by a press of either and      *)
(* cleared by a release of either, so after any sequence of delivered key  *)
(* events the bit equals the pressed/released value of the most recent     *)
(* alt-or-meta event, not whether the alt key is still held (press alt,    *)
(* press meta, release meta leaves the bit clear while alt is held).       *)
(***************************************************************************)
\* The key codes that drive the alt bit.
AltOrMeta == {KEY_ALT, KEY_META}

\* The alt bit of the latch of st.
AltBit(st) == HasMask(st.modifier_state, Mod1Mask)

\* send_key_event for the key godot_keycode, which the keyboard has.
KeyTo(st, window_id, godot_keycode, pressed) ==
    send_key_event(st, window_id, godot_keycode, pressed, Mapped(godot_keycode))

RegistryNeedsConnection(st) ==
    (st.windows # EmptyMap \/ st.xwindow_to_id # EmptyMap) => st.display

\* The state predicate of C40, stated of one state.
RegistryStaysConnected ==
    /\ windows # EmptyMap \/ xwindow_to_id # EmptyMap => display
    /\ pc = "idle" =>
          LET closed == cleanup(Cur)
          IN  /\ RegistryNeedsConnection(closed)
              /\ initialized =>
                    /\ closed.windows = EmptyMap
                    /\ ~closed.display
              /\ \A o \in InitFailures :
                    LET failed == initialize(Cur, o)
                    IN  RegistryNeedsConnection(failed)

\* C40: in every reachable state a record or a lookup entry implies an open
\* connection; and so it is, between two ticks, in the state cleanup would
\* return, which has neither record nor connection, and in the state a
\* failing initialize would return.
C40_RegistryNeedsConnection == []RegistryStaysConnected

\* C40: a session that tracked windows has been cleaned up: the connection
\* is closed and the registry is empty.
C40_Witness ==
    /\ pc = "idle"
    /\ ~initialized /\ ~display
    /\ next_window_id = MaxId + 1
    /\ windows = EmptyMap /\ xwindow_to_id = EmptyMap
====
